---- MODULE Spec2Model ----
(***************************************************************************)
(* Trait-obligation fulfillment (traits/fulfill.rs) and associated-type    *)
(* projection (traits/project.rs).                                         *)
(*                                                                         *)
(* Spec      : FulfillmentContext driving the obligation forest            *)
(*             (register / select / select_all_or_error, FulfillProcessor).*)
(* SpecCache : opt_normalize_projection_type over the projection cache.    *)
(*                                                                         *)
(* The obligation forest, the projection cache container, selection and    *)
(* the inference context live outside the given sources; they are modelled *)
(* from their documented contract and fed by nondeterministic answers.     *)
(***************************************************************************)
EXTENDS Integers, Sequences, FiniteSets, TLC

VARIABLES
    nodes,      \* FulfillmentContext.predicates: the forest's node arena
    resolved,   \* inference context: the inference variables known so far
    pc,         \* "idle" | "pass" | "stalled" | "aborted" | "ice"
    mode,       \* the operation running: select_where_possible | select_all_or_error
    index,      \* process_obligations: the node the pass looks at next
    limit,      \* process_obligations: the last node of this pass
    stalled,    \* process_obligations: Outcome.stalled of the running pass
    passErrors, \* process_obligations: Outcome.errors of the running pass
    errors,     \* select: the local `errors`
    outcomes,   \* the Outcome of every finished pass of the running select
    result,     \* what the last finished operation returned
    fatal,      \* the cycle given to report_overflow_error_cycle, <<>> if none
    last,       \* the last process_obligation call: node, result, cycles offered
    blocked,    \* some process_obligation call of this run returned Unchanged
    calls,      \* the select runs started so far
    cache,      \* projection cache: ProjectionCacheKey -> ProjectionCacheEntry
    cstack,     \* the opt_normalize_projection_type calls inside project_type
    tyvars,     \* type variables created by next_ty_var
    assembled,  \* per key: how often project_type ran for it
    creq,       \* the last opt_normalize_projection_type call: key and outcome
    pstage,     \* project_type: "idle" | "param_env" | "trait_def" | "impls" | "match" | "done"
    pobligation,\* project_type: the obligation being projected
    candidates, \* project_type: the local ProjectionTyCandidateSet
    trail,      \* the pushes and marks made on `candidates` by this call
    projected,  \* what the last project_type call returned
    impl_source,\* project_type: what selection answered in the impls step
    nreq,       \* the last normalize call: its value, mode, depth and outcome
    order       \* the fixed answers of a run and the nodes each pass has processed

fvars == <<nodes, resolved, pc, mode, index, limit, stalled, passErrors,
           errors, outcomes, result, fatal, last, blocked, calls>>

cvars == <<cache, cstack, tyvars, assembled, creq>>

pvars == <<pstage, pobligation, candidates, trail, projected, impl_source>>

vars == <<fvars, cvars, pvars, nreq, order>>

(* ------------------------------ bounds --------------------------------- *)

\* number of inference variables
NumVars == 2

\* number of distinct predicate names
NumPreds == 2

\* arena capacity of the obligation forest
MaxNodes == 3

\* deepest recursion_depth at which selection still yields nested obligations
MaxDepth == 2

\* most nested obligations one selection yields
MaxKids == 2

\* most select runs one fulfillment context sees
MaxCalls == 2

\* number of distinct projections `<T as Trait>::Item`
NumProjs == 2

\* most operations made on one candidate set used on its own
MaxPushes == 3

\* deepest nesting of normalization requests
MaxStack == 2

\* most type variables next_ty_var creates
MaxTyVars == 2

\* number of distinct projection predicates / impl sources per source
NumCands == 2

\* most matching predicates one scan of bounds finds
MaxBounds == 2

\* the session's recursion limit
RecursionLimit == 1

\* normalize calls in one run
MaxNormalize == 2

\* roots and select runs where the order within a pass is free
MaxOrderRoots == 3

MaxOrderCalls == 1

\* roots registered in the runs over all predicate kinds
MaxRoots == 1

Vars == 1..NumVars

PredNames == 1..NumPreds

(* --------------------------- predicates -------------------------------- *)

\* inference variables mentioned by the trait-ref of predicate `n`
InferVarsOf(n) == IF n % 2 = 0 THEN Vars ELSE {}

\* a predicate: kind, name, and the unresolved inference variables it mentions
MkPred(n) ==
    [kind |-> "Trait", name |-> n, infer |-> InferVarsOf(n), binder |-> "no_bound_vars"]

\* the binders of a TypeOutlives predicate `for<..> T: 'r`
Binders == {"no_bound_vars", "bound_region", "bound_type"}

\* a Projection, TypeOutlives or RegionOutlives predicate; a TypeOutlives
\* predicate carries its binder, the others the inference variables of
\* their trait-ref
MkKindPred(kind, n, binder) ==
    [kind |-> kind, name |-> n,
     infer |-> IF kind = "Projection" THEN InferVarsOf(n) ELSE {},
     binder |-> binder]

\* Binder::no_bound_vars on the predicate `T: 'r`
no_bound_vars(pred) == pred.binder = "no_bound_vars"

\* Binder::no_bound_vars on the type T alone: Some(t_a) unless the type
\* mentions a bound variable
ty_no_bound_vars(pred) == pred.binder # "bound_type"

\* infcx.resolve_vars_if_possible: substitute the known inference bindings
resolve_vars_if_possible(pred, res) == [pred EXCEPT !.infer = @ \ res]

\* TypeFoldable::has_infer_types_or_consts
has_infer_types_or_consts(pred) == pred.infer # {}

\* Predicate::is_global: no inference variables (and no parameters)
is_global(pred) == pred.infer = {}

\* InferCtxt::ty_or_const_infer_var_changed: the variable is known by now
ty_or_const_infer_var_changed(v, res) == v \in res

\* SelectionContext::coinductive_match: every predicate of the cycle is an
\* auto-trait bound (odd names stand for auto traits)
coinductive_match(preds) ==
    \A k \in 1..Len(preds) : preds[k].kind = "Trait" /\ preds[k].name % 2 = 1

RECURSIVE SetToSeq(_)
\* the elements of a finite set of numbers in ascending order
SetToSeq(S) ==
    IF S = {} THEN <<>>
    ELSE LET m == CHOOSE x \in S : \A y \in S : x <= y
         IN <<m>> \o SetToSeq(S \ {m})

\* trait_ref_infer_vars: the inference variables left in the resolved trait-ref
trait_ref_infer_vars(pred, res) == SetToSeq(resolve_vars_if_possible(pred, res).infer)

\* Obligation { predicate, recursion_depth } (cause and param_env are fixed)
MkObligation(pred, depth) == [predicate |-> pred, recursion_depth |-> depth]

\* mutant of mk_pending: the obligations are dropped
mk_pending_drop(os) == <<>>

\* mk_pending: wrap obligations with an empty stalled_on
mk_pending(os) == [k \in 1..Len(os) |-> [obligation |-> os[k], stalled_on |-> <<>>]]

(* ------------------- projection cache (project.rs) --------------------- *)

Projs == 1..NumProjs

\* inference variables mentioned by the substitutions of projection `p`
ProjVars(p) == IF p % 2 = 0 THEN Vars ELSE {}

\* ProjectionCacheKey::new on the resolved projection type
ProjectionCacheKey(p, res) == [proj |-> p, infer |-> ProjVars(p) \ res]

Keys == {[proj |-> p, infer |-> i] : p \in Projs, i \in SUBSET Vars}

\* a type: a constructor and the inference variables it mentions
MkTy(id, infer) == [id |-> id, n |-> 0, infer |-> infer]

\* a type variable made by next_ty_var
TyVar(n) == [id |-> "var", n |-> n, infer |-> {}]

\* the projection type itself, as a type
ProjectionTy(key) == [id |-> "projection", n |-> key.proj, infer |-> key.infer]

NoTy == [id |-> "none", n |-> 0, infer |-> {}]

\* infcx.unresolved_type_vars(..).is_some()
unresolved_type_vars(ty, res) == ty.infer \ res # {}

\* ProjectionCacheEntry
AbsentEntry == [kind |-> "Absent", value |-> NoTy, obligations |-> <<>>]

InProgressEntry == [kind |-> "InProgress", value |-> NoTy, obligations |-> <<>>]

AmbiguousEntry == [kind |-> "Ambiguous", value |-> NoTy, obligations |-> <<>>]

ErrorEntry == [kind |-> "Error", value |-> NoTy, obligations |-> <<>>]

NormalizedTyEntry(n) ==
    [kind |-> "NormalizedTy", value |-> n.value, obligations |-> n.obligations]

\* ProjectionCache::try_start: Ok and the key InProgress if it was absent,
\* else Err(the entry)
try_start(c, key) ==
    IF c[key].kind = "Absent"
    THEN [ok |-> TRUE, cache |-> [c EXCEPT ![key] = InProgressEntry], entry |-> AbsentEntry]
    ELSE [ok |-> FALSE, cache |-> c, entry |-> c[key]]

\* ProjectionCache::insert_ty
insert_ty(c, key, n) == [c EXCEPT ![key] = NormalizedTyEntry(n)]

\* ProjectionCache::complete_normalized: keep the value, drop the obligations
complete_normalized(c, key, ty) ==
    [c EXCEPT ![key] = NormalizedTyEntry([value |-> ty.value, obligations |-> <<>>])]

\* ProjectionCache::ambiguous
ambiguous(c, key) == [c EXCEPT ![key] = AmbiguousEntry]

\* ProjectionCache::error
error(c, key) == [c EXCEPT ![key] = ErrorEntry]

\* the obligation `T: Trait` of projection p at `depth`
TraitObligation(p, depth) ==
    [kind |-> "Trait", proj |-> p, ty |-> NoTy, recursion_depth |-> depth]

\* an obligation `<..>::X == ty` at `depth`
ProjectionObligation(p, ty, depth) ==
    [kind |-> "Projection", proj |-> p, ty |-> ty, recursion_depth |-> depth]

\* mutant of get_paranoid_cache_value_obligation: one level too deep
get_paranoid_cache_value_obligation_deeper(p, depth) == TraitObligation(p, depth + 1)

\* get_paranoid_cache_value_obligation
get_paranoid_cache_value_obligation(p, depth) == TraitObligation(p, depth)

\* normalize_to_error: a fresh type variable and the obligation `T: Trait`
normalize_to_error(p, depth, tv) ==
    [value |-> TyVar(tv + 1), obligations |-> <<TraitObligation(p, depth)>>]

\* Vec::iter().filter(f): the elements of seq that satisfy Keep, in order
RECURSIVE FilterSeq(_, _)
FilterSeq(seq, keep) ==
    IF seq = <<>> THEN <<>>
    ELSE (IF Head(seq) \in keep THEN <<Head(seq)>> ELSE <<>>)
         \o FilterSeq(Tail(seq), keep)

\* prune_cache_value_obligations
prune_cache_value_obligations(n, res) ==
    IF ~unresolved_type_vars(n.value, res)
    THEN [value |-> n.value, obligations |-> <<>>]
    ELSE [value |-> n.value,
          obligations |->
              FilterSeq(n.obligations,
                  {o \in {n.obligations[k] : k \in 1..Len(n.obligations)} :
                      o.kind = "Projection" /\ unresolved_type_vars(o.ty, res)})]

\* mutant of cached_obligations: the stored obligations are returned even
\* when the value is fully resolved
cached_obligations_always(e, res) == e.obligations

\* the NormalizedTy arm: the stored obligations are returned only while the
\* cached value has unresolved type variables
cached_obligations(e, res) ==
    IF ~unresolved_type_vars(e.value, res) THEN <<>> ELSE e.obligations

\* mutant of lookup_proceeds: a cached Ambiguous is computed again
lookup_proceeds_on_ambiguous(ts) == ts.ok \/ ts.entry.kind = "Ambiguous"

\* mutant of lookup_proceeds: a key that is being computed is computed again
lookup_proceeds_on_in_progress(ts) == ts.ok \/ ts.entry.kind = "InProgress"

\* mutant of lookup_proceeds: a cached Error is computed again
lookup_proceeds_on_error(ts) == ts.ok \/ ts.entry.kind = "Error"

\* opt_normalize_projection_type, `match cache_result`: only Ok(()) goes on
\* to project_type, every Err(entry) arm returns
lookup_proceeds(ts) == ts.ok

\* opt_normalize_projection_type up to the call of project_type: the cache
\* lookup. `started` tells that try_start was won and project_type runs.
opt_normalize_lookup(c, p, depth, res, tv) ==
    LET key == ProjectionCacheKey(p, res)
        ts == try_start(c, key)
        e == ts.entry
    IN CASE lookup_proceeds(ts) ->
              [started |-> TRUE, key |-> key, cache |-> ts.cache, ret |-> "none",
               value |-> NoTy, obligations |-> <<>>, tyvars |-> tv]
         [] e.kind = "Ambiguous" ->
              [started |-> FALSE, key |-> key, cache |-> ts.cache, ret |-> "OkNone",
               value |-> NoTy, obligations |-> <<>>, tyvars |-> tv]
         [] e.kind = "InProgress" ->
              [started |-> FALSE, key |-> key, cache |-> ts.cache,
               ret |-> "ErrInProgress", value |-> NoTy, obligations |-> <<>>,
               tyvars |-> tv]
         [] e.kind = "NormalizedTy" ->
              [started |-> FALSE, key |-> key,
               cache |-> IF ~unresolved_type_vars(e.value, res)
                         THEN complete_normalized(ts.cache, key, e)
                         ELSE ts.cache,
               ret |-> "OkSome", value |-> e.value,
               obligations |-> cached_obligations(e, res)
                               \o <<get_paranoid_cache_value_obligation(p, depth)>>,
               tyvars |-> tv]
         [] OTHER ->
              LET r == normalize_to_error(p, depth, tv)
              IN [started |-> FALSE, key |-> key, cache |-> ts.cache, ret |-> "OkSome",
                  value |-> r.value, obligations |-> r.obligations, tyvars |-> tv + 1]

\* mutant of opt_normalize_finish: an ambiguous projection leaves the cache
\* as it is
opt_normalize_finish_ambiguous_unwritten(c, key, p, depth, out, res, tv) ==
    CASE out.tag = "Progress" ->
           LET rs == [value |-> out.ty, obligations |-> out.obligations]
           IN [cache |-> insert_ty(c, key, prune_cache_value_obligations(rs, res)),
               ret |-> "OkSome", value |-> rs.value, obligations |-> rs.obligations,
               tyvars |-> tv]
      [] out.tag = "NoProgress" ->
           LET rs == [value |-> ProjectionTy(key), obligations |-> <<>>]
           IN [cache |-> insert_ty(c, key, rs), ret |-> "OkSome",
               value |-> rs.value, obligations |-> <<>>, tyvars |-> tv]
      [] out.tag = "TooManyCandidates" ->
           [cache |-> c, ret |-> "OkNone", value |-> NoTy,
            obligations |-> <<>>, tyvars |-> tv]
      [] OTHER ->
           LET r == normalize_to_error(p, depth, tv)
           IN [cache |-> error(c, key), ret |-> "OkSome", value |-> r.value,
               obligations |-> r.obligations, tyvars |-> tv + 1]

\* opt_normalize_projection_type after project_type returned `out`: the
\* final cache entry and the result
opt_normalize_finish(c, key, p, depth, out, res, tv) ==
    CASE out.tag = "Progress" ->
           LET rs == [value |-> out.ty, obligations |-> out.obligations]
           IN [cache |-> insert_ty(c, key, prune_cache_value_obligations(rs, res)),
               ret |-> "OkSome", value |-> rs.value, obligations |-> rs.obligations,
               tyvars |-> tv]
      [] out.tag = "NoProgress" ->
           LET rs == [value |-> ProjectionTy(key), obligations |-> <<>>]
           IN [cache |-> insert_ty(c, key, rs), ret |-> "OkSome",
               value |-> rs.value, obligations |-> <<>>, tyvars |-> tv]
      [] out.tag = "TooManyCandidates" ->
           [cache |-> ambiguous(c, key), ret |-> "OkNone", value |-> NoTy,
            obligations |-> <<>>, tyvars |-> tv]
      [] OTHER ->
           LET r == normalize_to_error(p, depth, tv)
           IN [cache |-> error(c, key), ret |-> "OkSome", value |-> r.value,
               obligations |-> r.obligations, tyvars |-> tv + 1]

\* what project_type (with the re-normalization of its result) may return
ProjectOutcomes(depth) ==
    {[tag |-> t, ty |-> NoTy, obligations |-> <<>>] :
        t \in {"NoProgress", "TooManyCandidates", "TraitSelectionError"}}
    \cup {[tag |-> "Progress", ty |-> ty, obligations |-> os] :
            ty \in {MkTy("i32", {}), MkTy("Vec", Vars)},
            os \in {<<>>,
                    <<ProjectionObligation(1, MkTy("Vec", Vars), depth + 1)>>,
                    <<TraitObligation(1, depth + 1),
                      ProjectionObligation(2, MkTy("i32", {}), depth + 1)>>}}

\* mutant of normalize_projection_type: the fresh type variable is returned
\* without the deferred obligation
normalize_projection_type_no_obligation(r, p, depth) ==
    IF r.ret = "OkSome"
    THEN [value |-> r.value, obligations |-> r.obligations, tyvars |-> r.tyvars]
    ELSE [value |-> TyVar(r.tyvars + 1), obligations |-> r.obligations,
          tyvars |-> r.tyvars + 1]

\* mutant of normalize_projection_type: the deferred obligation keeps the
\* caller's depth
normalize_projection_type_same_depth(r, p, depth) ==
    IF r.ret = "OkSome"
    THEN [value |-> r.value, obligations |-> r.obligations, tyvars |-> r.tyvars]
    ELSE [value |-> TyVar(r.tyvars + 1),
          obligations |-> Append(r.obligations,
                                 ProjectionObligation(p, TyVar(r.tyvars + 1), depth)),
          tyvars |-> r.tyvars + 1]

\* normalize_projection_type: the result of opt_normalize_projection_type
\* `r` when it is Ok(Some(ty)); otherwise (Ok(None) or Err(InProgress)) a
\* fresh type variable $X and the deferred obligation `projection == $X`
normalize_projection_type(r, p, depth) ==
    IF r.ret = "OkSome"
    THEN [value |-> r.value, obligations |-> r.obligations, tyvars |-> r.tyvars]
    ELSE [value |-> TyVar(r.tyvars + 1),
          obligations |-> Append(r.obligations,
                                 ProjectionObligation(p, TyVar(r.tyvars + 1), depth + 1)),
          tyvars |-> r.tyvars + 1]

\* the entry points: project_and_unify_type calls
\* opt_normalize_projection_type, the normalizer calls
\* normalize_projection_type
EntryPoints == {"opt", "normalize"}

\* what the entry point `via` hands to its caller
entry_result(via, r, p, depth) ==
    IF via = "normalize" /\ r.ret # "none"
    THEN normalize_projection_type(r, p, depth)
    ELSE [value |-> r.value, obligations |-> r.obligations, tyvars |-> r.tyvars]

\* what a call of opt_normalize_projection_type finds when it starts or
\* resumes: the cache, the active calls, the type variables made so far and
\* the assembly counts
Found(c, st, tv, asm) == [cache |-> c, cstack |-> st, tyvars |-> tv,
                          assembled |-> asm]

\* the last request: its key, projection, depth and entry point, the entry
\* found (hit, stored), the bindings at the time, the answer of
\* opt_normalize_projection_type (ret), what the caller received, and the
\* cache state the call found
NoRequest == [key |-> [proj |-> 0, infer |-> {}], proj |-> 0, depth |-> 0,
              via |-> "none", ret |-> "none", value |-> NoTy,
              obligations |-> <<>>, hit |-> "none", stored |-> <<>>,
              resolved |-> {}, out |-> "none",
              found |-> Found([k \in Keys |-> AbsentEntry], <<>>, 0,
                              [k \in Keys |-> 0])]

(* ---------------- project_type and candidate assembly ------------------ *)

\* ProjectionTyCandidate
Sources == {"ParamEnv", "TraitDef", "Select"}

MkCandidate(source, id) == [source |-> source, id |-> id]

NoCandidate == [source |-> "none", id |-> 0]

CandidateIds == 1..NumCands

\* ProjectionTyCandidateSet
NoneSet == [tag |-> "None", candidate |-> NoCandidate, err |-> "none"]

Single(candidate) == [tag |-> "Single", candidate |-> candidate, err |-> "none"]

AmbiguousSet == [tag |-> "Ambiguous", candidate |-> NoCandidate, err |-> "none"]

ErrorSet(e) == [tag |-> "Error", candidate |-> NoCandidate, err |-> e]

\* the `unreachable!()` arm of push_candidate
UnreachableSet == [tag |-> "unreachable", candidate |-> NoCandidate, err |-> "none"]

mark_ambiguous(cset) == AmbiguousSet

mark_error(cset, e) == ErrorSet(e)

\* mutant of push_candidate: a where-clause candidate does not dominate
push_candidate_no_priority(cset, candidate) ==
    CASE cset.tag = "None" -> [set |-> Single(candidate), ret |-> TRUE]
      [] cset.tag = "Single" ->
           IF cset.candidate = candidate THEN [set |-> cset, ret |-> FALSE]
           ELSE [set |-> AmbiguousSet, ret |-> FALSE]
      [] OTHER -> [set |-> cset, ret |-> FALSE]

\* mutant of push_candidate: duplicates are not recognised
push_candidate_no_dedup(cset, candidate) ==
    CASE cset.tag = "None" -> [set |-> Single(candidate), ret |-> TRUE]
      [] cset.tag = "Single" ->
           CASE cset.candidate.source = "ParamEnv" /\ candidate.source = "ParamEnv" ->
                  [set |-> AmbiguousSet, ret |-> FALSE]
             [] cset.candidate.source = "ParamEnv" -> [set |-> cset, ret |-> FALSE]
             [] candidate.source = "ParamEnv" -> [set |-> UnreachableSet, ret |-> FALSE]
             [] OTHER -> [set |-> AmbiguousSet, ret |-> FALSE]
      [] OTHER -> [set |-> cset, ret |-> FALSE]

\* mutant of push_candidate: a push onto Error turns the set Ambiguous
push_candidate_error_not_kept(cset, candidate) ==
    CASE cset.tag = "None" -> [set |-> Single(candidate), ret |-> TRUE]
      [] cset.tag = "Single" ->
           IF cset.candidate = candidate THEN [set |-> cset, ret |-> FALSE]
           ELSE CASE cset.candidate.source = "ParamEnv" /\ candidate.source = "ParamEnv" ->
                       [set |-> AmbiguousSet, ret |-> FALSE]
                  [] cset.candidate.source = "ParamEnv" -> [set |-> cset, ret |-> FALSE]
                  [] candidate.source = "ParamEnv" ->
                       [set |-> UnreachableSet, ret |-> FALSE]
                  [] OTHER -> [set |-> AmbiguousSet, ret |-> FALSE]
      [] OTHER -> [set |-> AmbiguousSet, ret |-> FALSE]

\* ProjectionTyCandidateSet::push_candidate: the new set and the returned flag
push_candidate(cset, candidate) ==
    CASE cset.tag = "None" -> [set |-> Single(candidate), ret |-> TRUE]
      [] cset.tag = "Single" ->
           IF cset.candidate = candidate THEN [set |-> cset, ret |-> FALSE]
           ELSE CASE cset.candidate.source = "ParamEnv" /\ candidate.source = "ParamEnv" ->
                       [set |-> AmbiguousSet, ret |-> FALSE]
                  [] cset.candidate.source = "ParamEnv" -> [set |-> cset, ret |-> FALSE]
                  [] candidate.source = "ParamEnv" ->
                       [set |-> UnreachableSet, ret |-> FALSE]
                  [] OTHER -> [set |-> AmbiguousSet, ret |-> FALSE]
      [] OTHER -> [set |-> cset, ret |-> FALSE]

\* one entry of the trail: an operation on the candidate set
MkPush(before, candidate, r) ==
    [op |-> "push", before |-> before, candidate |-> candidate,
     after |-> r.set, ret |-> r.ret]

MkMark(op, before, after) ==
    [op |-> op, before |-> before, candidate |-> NoCandidate,
     after |-> after, ret |-> FALSE]

\* assemble_candidates_from_predicates: every matching predicate, in order,
\* is pushed as ctor(data)
RECURSIVE assemble_candidates_from_predicates(_, _, _, _)
assemble_candidates_from_predicates(cset, tr, ctor, matches) ==
    IF matches = <<>> THEN [set |-> cset, trail |-> tr]
    ELSE LET candidate == MkCandidate(ctor, Head(matches))
             r == push_candidate(cset, candidate)
         IN assemble_candidates_from_predicates(
                r.set, Append(tr, MkPush(cset, candidate, r)), ctor, Tail(matches))

\* the matching predicates a scan of bounds may find, in order
Matches == UNION {[1..n -> CandidateIds] : n \in 0..MaxBounds}

\* mutant of value_within_limit: one level more is allowed
value_within_limit_lax(depth) == depth <= RecursionLimit + 1

\* recursion_limit().value_within_limit(depth)
value_within_limit(depth) == depth <= RecursionLimit

\* confirm_candidate
confirm_candidate(candidate) == [tag |-> "Progress", candidate |-> candidate, err |-> "none"]

\* Progress::error
ProgressError == [tag |-> "Progress", candidate |-> NoCandidate, err |-> "ty_error"]

NoProgress == [tag |-> "NoProgress", candidate |-> NoCandidate, err |-> "none"]

TooManyCandidates == [tag |-> "TooManyCandidates", candidate |-> NoCandidate, err |-> "none"]

TraitSelectionError(e) == [tag |-> "TraitSelectionError", candidate |-> NoCandidate, err |-> e]

NotProjected == [tag |-> "none", candidate |-> NoCandidate, err |-> "none"]

\* mutant of project_type_match: an empty set is reported as ambiguity
project_type_match_none_ambiguous(cset) ==
    CASE cset.tag = "Single" -> confirm_candidate(cset.candidate)
      [] cset.tag = "None" -> TooManyCandidates
      [] cset.tag = "Error" -> TraitSelectionError(cset.err)
      [] OTHER -> TooManyCandidates

\* project_type, `match candidates`
project_type_match(cset) ==
    CASE cset.tag = "Single" -> confirm_candidate(cset.candidate)
      [] cset.tag = "None" -> NoProgress
      [] cset.tag = "Error" -> TraitSelectionError(cset.err)
      [] OTHER -> TooManyCandidates

\* what selcx.select and the eligibility test of assemble_candidates_from_impls
\* may come to
ImplAnswers ==
    {[sel |-> "Some", source |-> "ImplSourceUserDefined", is_final |-> f,
      still_further_specializable |-> g, id |-> i] :
        f \in BOOLEAN, g \in BOOLEAN, i \in CandidateIds}
    \cup {[sel |-> "Some", source |-> src, is_final |-> TRUE,
           still_further_specializable |-> FALSE, id |-> i] :
             src \in {"ImplSourceObject", "ImplSourceParam"}, i \in CandidateIds}
    \cup {[sel |-> r, source |-> "none", is_final |-> TRUE,
           still_further_specializable |-> FALSE, id |-> 0] : r \in {"None", "Err"}}

\* no selection has been made in this call
NoImplSource ==
    [sel |-> "none", source |-> "none", is_final |-> TRUE,
     still_further_specializable |-> FALSE, id |-> 0]

Reveals == {"UserFacing", "All"}

\* mutant of eligible: a specializable default is revealed in every mode
eligible_any_reveal(a, reveal) ==
    CASE a.source = "ImplSourceUserDefined" ->
           IF a.is_final THEN TRUE ELSE ~a.still_further_specializable
      [] a.source = "ImplSourceParam" -> FALSE
      [] OTHER -> TRUE

\* assemble_candidates_from_impls, `let eligible = match &impl_source`
eligible(a, reveal) ==
    CASE a.source = "ImplSourceUserDefined" ->
           IF a.is_final THEN TRUE
           ELSE IF reveal = "All" THEN ~a.still_further_specializable
           ELSE FALSE
      [] a.source = "ImplSourceParam" -> FALSE
      [] OTHER -> TRUE

\* the self types assemble_candidates_from_trait_def tells apart
SelfTys == {"Projection", "Opaque", "Infer", "Other"}

\* assemble_candidates_from_trait_def on the set `cset` with trail `tr`: the
\* trait's bounds for a projection or opaque self type, an induced ambiguity
\* for an inference variable, nothing otherwise
trait_def_candidates(cset, tr, self_ty, matches) ==
    CASE self_ty \in {"Projection", "Opaque"} ->
           assemble_candidates_from_predicates(cset, tr, "TraitDef", matches)
      [] self_ty = "Infer" ->
           [set |-> mark_ambiguous(cset),
            trail |-> Append(tr, MkMark("mark_ambiguous", cset, mark_ambiguous(cset)))]
      [] OTHER -> [set |-> cset, trail |-> tr]

\* mutant of impl_candidates: a failed or undecided selection touches only
\* an empty candidate set
impl_candidates_keep_earlier(cset, tr, a, reveal) ==
    CASE a.sel = "None" /\ cset.tag = "None" ->
           [set |-> mark_ambiguous(cset),
            trail |-> Append(tr, MkMark("mark_ambiguous", cset, mark_ambiguous(cset)))]
      [] a.sel = "Err" /\ cset.tag = "None" ->
           [set |-> mark_error(cset, "Unimplemented"),
            trail |-> Append(tr, MkMark("mark_error", cset,
                                        mark_error(cset, "Unimplemented")))]
      [] a.sel = "Some" /\ eligible(a, reveal) ->
           LET candidate == MkCandidate("Select", a.id)
               r == push_candidate(cset, candidate)
           IN [set |-> r.set, trail |-> Append(tr, MkPush(cset, candidate, r))]
      [] OTHER -> [set |-> cset, trail |-> tr]

\* assemble_candidates_from_impls on the set `cset` with trail `tr`, given
\* the answer `a` of selection and the obligation's reveal mode
impl_candidates(cset, tr, a, reveal) ==
    CASE a.sel = "None" ->
           [set |-> mark_ambiguous(cset),
            trail |-> Append(tr, MkMark("mark_ambiguous", cset, mark_ambiguous(cset)))]
      [] a.sel = "Err" ->
           [set |-> mark_error(cset, "Unimplemented"),
            trail |-> Append(tr, MkMark("mark_error", cset,
                                        mark_error(cset, "Unimplemented")))]
      [] a.sel = "Some" /\ eligible(a, reveal) ->
           LET candidate == MkCandidate("Select", a.id)
               r == push_candidate(cset, candidate)
           IN [set |-> r.set, trail |-> Append(tr, MkPush(cset, candidate, r))]
      [] OTHER -> [set |-> cset, trail |-> tr]

\* project_type as one function of the obligation and of what the three
\* sources find: `inp` holds the matching where-clauses (param_env), the
\* self type and the matching trait bounds (self_ty, trait_def), and the
\* answer of selection (impls)
\* mutant of project_type: the recursion depth is not looked at
project_type_any_depth(depth, referr, inp) ==
    IF referr THEN ProgressError
    ELSE LET s1 == assemble_candidates_from_predicates(NoneSet, <<>>, "ParamEnv",
                                                       inp.param_env)
             s2 == trait_def_candidates(s1.set, s1.trail, inp.self_ty, inp.trait_def)
             s3 == impl_candidates(s2.set, s2.trail, inp.impls, inp.reveal)
         IN project_type_match(s3.set)

\* project_type
project_type(depth, referr, inp) ==
    IF ~value_within_limit(depth) THEN TraitSelectionError("Overflow")
    ELSE IF referr THEN ProgressError
    ELSE LET s1 == assemble_candidates_from_predicates(NoneSet, <<>>, "ParamEnv",
                                                       inp.param_env)
             s2 == trait_def_candidates(s1.set, s1.trail, inp.self_ty, inp.trait_def)
             s3 == impl_candidates(s2.set, s2.trail, inp.impls, inp.reveal)
         IN project_type_match(s3.set)

(* ---------------- AssocTypeNormalizer (project.rs) --------------------- *)

\* a type as a tree: its constructor, an index (the variable, projection
\* or opaque definition), its components, and for a projection whether it
\* has escaping bound variables
I32 == [ctor |-> "i32", n |-> 0, args |-> <<>>, bound |-> FALSE]

InferTy(v) == [ctor |-> "Infer", n |-> v, args |-> <<>>, bound |-> FALSE]

VecTy(t) == [ctor |-> "Vec", n |-> 0, args |-> <<t>>, bound |-> FALSE]

ProjectionTree(p, b) == [ctor |-> "Projection", n |-> p, args |-> <<>>, bound |-> b]

OpaqueTy(d, args) == [ctor |-> "Opaque", n |-> d, args |-> args, bound |-> FALSE]

\* a type made elsewhere (a cached or confirmed type, a type variable of
\* next_ty_var) as a tree
AsTree(ty) ==
    IF ty.id = "projection" THEN ProjectionTree(ty.n, FALSE)
    ELSE [ctor |-> ty.id, n |-> ty.n, args |-> <<>>, bound |-> FALSE]

\* tcx.type_of(def_id).subst(substs): the concrete type of an opaque type.
\* Definition 1 is i32, definition 2 mentions itself, definition 3 is a
\* projection inside a Vec
type_of(ty) ==
    CASE ty.n = 1 -> I32
      [] ty.n = 2 -> VecTy(OpaqueTy(2, <<>>))
      [] OTHER -> VecTy(ProjectionTree(1, FALSE))

RECURSIVE has_projections(_)
\* TypeFoldable::has_projections: a projection or an opaque type occurs
has_projections(ty) ==
    \/ ty.ctor \in {"Projection", "Opaque"}
    \/ \E k \in 1..Len(ty.args) : has_projections(ty.args[k])

RECURSIVE resolve_ty(_, _)
\* infcx.resolve_vars_if_possible on a type: a known variable is replaced
\* by its binding
resolve_ty(ty, res) ==
    IF ty.ctor = "Infer" /\ ty.n \in res THEN I32
    ELSE [ty EXCEPT !.args = [k \in 1..Len(ty.args) |-> resolve_ty(ty.args[k], res)]]

\* the normalizer's state while folding: the inference context's cache and
\* type variables, the caller's obligations, self.depth, and what was done
\* (cache lookups, project_type runs, the depths of the opaque types
\* unfolded, the overflow reported)
MkNormalizer(c, tv, depth) ==
    [cache |-> c, tyvars |-> tv, obligations |-> <<>>, depth |-> depth,
     lookups |-> 0, assembled |-> 0, unfolded |-> <<>>, overflow |-> FALSE]

\* what project_type answers for projection `p` in this call
ProjectedAs(tag, p, depth) ==
    [tag |-> tag,
     ty |-> IF tag = "Progress" THEN MkTy("i32", {}) ELSE NoTy,
     obligations |-> IF tag = "Progress" THEN <<TraitObligation(p, depth + 1)>>
                     ELSE <<>>]

\* fold_ty, the ty::Projection arm: normalize_projection_type at self.depth
\* with self.obligations
fold_projection(ty, st, env) ==
    LET p == ty.n
        lk == opt_normalize_lookup(st.cache, p, st.depth, env.res, st.tyvars)
        r == IF lk.started
             THEN opt_normalize_finish(lk.cache, lk.key, p, st.depth,
                                       ProjectedAs(env.outs[p], p, st.depth),
                                       env.res, st.tyvars)
             ELSE lk
        n == normalize_projection_type(r, p, st.depth)
    IN [ty |-> AsTree(n.value),
        st |-> [st EXCEPT !.cache = r.cache, !.tyvars = n.tyvars,
                          !.obligations = @ \o n.obligations,
                          !.lookups = @ + 1,
                          !.assembled = @ + (IF lk.started THEN 1 ELSE 0)]]

\* mutant of reveals_opaque: opaque types are unfolded in every mode
reveals_opaque_always(reveal) == TRUE

\* fold_ty, `match self.param_env.reveal()`: UserFacing keeps the opaque
\* type, All unfolds it
reveals_opaque(reveal) == reveal = "All"

RECURSIVE fold_ty(_, _, _)
RECURSIVE super_fold_with(_, _, _, _)
\* ty.super_fold_with(self): the components of `ty` from the k-th on are
\* folded in order
super_fold_with(ty, k, st, env) ==
    IF k > Len(ty.args) THEN [ty |-> ty, st |-> st]
    ELSE LET f == fold_ty(ty.args[k], st, env)
         IN super_fold_with([ty EXCEPT !.args[k] = f.ty], k + 1, f.st, env)

\* AssocTypeNormalizer::fold_ty; a reported overflow is fatal and ends the
\* fold
fold_ty(ty, st, env) ==
    IF st.overflow \/ ~has_projections(ty) THEN [ty |-> ty, st |-> st]
    ELSE LET f == super_fold_with(ty, 1, st, env)
         IN CASE f.st.overflow -> f
              [] f.ty.ctor = "Opaque" ->
                   IF ~reveals_opaque(env.reveal) THEN f
                   ELSE IF ~value_within_limit(f.st.depth)
                   THEN [ty |-> f.ty, st |-> [f.st EXCEPT !.overflow = TRUE]]
                   ELSE LET r == fold_ty(type_of(f.ty),
                                         [f.st EXCEPT !.depth = @ + 1,
                                              !.unfolded = Append(@, f.st.depth)],
                                         env)
                        IN [ty |-> r.ty, st |-> [r.st EXCEPT !.depth = @ - 1]]
              [] f.ty.ctor = "Projection" /\ ~f.ty.bound -> fold_projection(f.ty, f.st, env)
              [] OTHER -> f

\* mutant of fold: the value is not resolved first
fold_unresolved(value, st, env) ==
    IF ~has_projections(value) THEN [ty |-> value, st |-> st]
    ELSE fold_ty(value, st, env)

\* AssocTypeNormalizer::fold
fold(value, st, env) ==
    LET v == resolve_ty(value, env.res)
    IN IF ~has_projections(v) THEN [ty |-> v, st |-> st] ELSE fold_ty(v, st, env)

(* ------------------- FulfillProcessor (fulfill.rs) --------------------- *)

\* ForestObligation::as_cache_key: param_env (fixed) and the predicate
as_cache_key(po) == po.obligation.predicate

\* mutant of stalled_change: several variables retried only if all changed
stalled_change_all(stalled_on, res) ==
    CASE Len(stalled_on) = 1 -> ty_or_const_infer_var_changed(stalled_on[1], res)
      [] Len(stalled_on) = 0 -> TRUE
      [] OTHER -> \A k \in 1..Len(stalled_on) :
                      ty_or_const_infer_var_changed(stalled_on[k], res)

\* process_obligation, the stall check: `change` computed from stalled_on
stalled_change(stalled_on, res) ==
    CASE Len(stalled_on) = 1 -> ty_or_const_infer_var_changed(stalled_on[1], res)
      [] Len(stalled_on) = 0 -> TRUE
      [] OTHER -> \E k \in 1..Len(stalled_on) :
                      ty_or_const_infer_var_changed(stalled_on[k], res)

\* what const_eval_resolve may answer
ConstEvals == {"Ok", "TooGeneric", "Reported", "Linted"}

\* the answers of the capabilities behind the direct checks: is_object_safe,
\* closure_kind, wf::obligations (with the obligations `os` of Some),
\* subtype_predicate, const_eval_resolve (for a const-evaluatable predicate
\* and for each side of a const-equate), and `eq` of the two constants
NoChk == [object_safe |-> TRUE, closure_kind |-> "none", wf |-> "none",
          os |-> <<>>, sub |-> "none", ce |-> "none", c1 |-> "none",
          c2 |-> "none", eq |-> TRUE]

\* how a process_obligation call came to its result: the answers it
\* consumed (must_hold: the predicate is global and predicate_must_hold
\* said yes; sel; region), and for a projection the self type, the number
\* of matching where-clauses, the answer of `eq`,
\* the outcome of project_type and of opt_normalize_projection_type
NoHow == [must_hold |-> FALSE, sel |-> "none", region |-> "none",
          self_ty |-> "none", bounds |-> 0, projected |-> "none", ret |-> "none",
          eq |-> "none", chk |-> NoChk, entry |-> "none"]

\* mutant of process_trait: selection is invoked for global predicates too
process_trait_always_select(po, res, ans) ==
    CASE ans.sel = "OkSome" ->
           [result |-> "Changed", children |-> mk_pending(ans.nested),
            error |-> "none", pending |-> po, attempted |-> TRUE,
            selected |-> TRUE,
            how |-> [NoHow EXCEPT !.sel = ans.sel,
                        !.must_hold = is_global(po.obligation.predicate) /\ ans.must_hold]]
      [] ans.sel = "OkNone" ->
           [result |-> "Unchanged", children |-> <<>>, error |-> "none",
            pending |-> [po EXCEPT !.stalled_on =
                            trait_ref_infer_vars(po.obligation.predicate, res)],
            attempted |-> TRUE, selected |-> TRUE,
            how |-> [NoHow EXCEPT !.sel = ans.sel,
                        !.must_hold = is_global(po.obligation.predicate) /\ ans.must_hold]]
      [] OTHER ->
           [result |-> "Error", children |-> <<>>,
            error |-> "CodeSelectionError", pending |-> po,
            attempted |-> TRUE, selected |-> TRUE,
            how |-> [NoHow EXCEPT !.sel = ans.sel,
                        !.must_hold = is_global(po.obligation.predicate) /\ ans.must_hold]]

\* process_obligation, the PredicateKind::Trait arm, on the resolved
\* obligation `po`; `ans` holds the answers of predicate_must_hold and select
process_trait(po, res, ans) ==
    IF is_global(po.obligation.predicate) /\ ans.must_hold
    THEN [result |-> "Changed", children |-> <<>>, error |-> "none",
          pending |-> po, attempted |-> TRUE, selected |-> FALSE,
          how |-> [NoHow EXCEPT !.must_hold = TRUE]]
    ELSE CASE ans.sel = "OkSome" ->
                [result |-> "Changed", children |-> mk_pending(ans.nested),
                 error |-> "none", pending |-> po, attempted |-> TRUE,
                 selected |-> TRUE, how |-> [NoHow EXCEPT !.sel = ans.sel,
                    !.must_hold = is_global(po.obligation.predicate) /\ ans.must_hold]]
           [] ans.sel = "OkNone" ->
                [result |-> "Unchanged", children |-> <<>>, error |-> "none",
                 pending |-> [po EXCEPT !.stalled_on =
                                 trait_ref_infer_vars(po.obligation.predicate, res)],
                 attempted |-> TRUE, selected |-> TRUE,
                 how |-> [NoHow EXCEPT !.sel = ans.sel,
                    !.must_hold = is_global(po.obligation.predicate) /\ ans.must_hold]]
           [] OTHER ->
                [result |-> "Error", children |-> <<>>,
                 error |-> "CodeSelectionError", pending |-> po,
                 attempted |-> TRUE, selected |-> TRUE,
                 how |-> [NoHow EXCEPT !.sel = ans.sel,
                    !.must_hold = is_global(po.obligation.predicate) /\ ans.must_hold]]

\* process_obligation, the PredicateKind::RegionOutlives arm: `ans.region`
\* is the answer of infcx.region_outlives_predicate
process_region_outlives(po, res, ans) ==
    IF ans.region = "Ok"
    THEN [result |-> "Changed", children |-> <<>>, error |-> "none",
          pending |-> po, attempted |-> TRUE, selected |-> FALSE,
          how |-> [NoHow EXCEPT !.region = "Ok"]]
    ELSE [result |-> "Error", children |-> <<>>, error |-> "CodeSelectionError",
          pending |-> po, attempted |-> TRUE, selected |-> FALSE,
          how |-> [NoHow EXCEPT !.region = "Err"]]

\* mutant of process_type_outlives: a higher-ranked bound whose type has no
\* bound variable waits
process_type_outlives_waits(po, res, ans) ==
    CASE no_bound_vars(po.obligation.predicate) ->
           [result |-> "Changed", children |-> <<>>, error |-> "none",
            pending |-> po, attempted |-> TRUE, selected |-> FALSE,
            how |-> [NoHow EXCEPT !.region = "r_b"]]
      [] ty_no_bound_vars(po.obligation.predicate) ->
           [result |-> "Unchanged", children |-> <<>>, error |-> "none",
            pending |-> po, attempted |-> TRUE, selected |-> FALSE,
            how |-> NoHow]
      [] OTHER ->
           [result |-> "Error", children |-> <<>>, error |-> "CodeSelectionError",
            pending |-> po, attempted |-> TRUE, selected |-> FALSE,
            how |-> NoHow]

\* process_obligation, the PredicateKind::TypeOutlives arm: how.region is
\* the region the type is required to outlive (registered as a region
\* obligation when register_region_obligations is set)
process_type_outlives(po, res, ans) ==
    CASE no_bound_vars(po.obligation.predicate) ->
           [result |-> "Changed", children |-> <<>>, error |-> "none",
            pending |-> po, attempted |-> TRUE, selected |-> FALSE,
            how |-> [NoHow EXCEPT !.region = "r_b"]]
      [] ty_no_bound_vars(po.obligation.predicate) ->
           [result |-> "Changed", children |-> <<>>, error |-> "none",
            pending |-> po, attempted |-> TRUE, selected |-> FALSE,
            how |-> [NoHow EXCEPT !.region = "static"]]
      [] OTHER ->
           [result |-> "Error", children |-> <<>>, error |-> "CodeSelectionError",
            pending |-> po, attempted |-> TRUE, selected |-> FALSE,
            how |-> NoHow]

\* shallow_resolve(obligation_trait_ref.self_ty()).kind: the self type of a
\* projection predicate is its first inference variable while unresolved
self_ty_kind(pred) == IF 1 \in pred.infer THEN "Infer" ELSE "Other"

\* an obligation produced by normalization, as a PredicateObligation
AsPredicateObligation(o, res) ==
    MkObligation(
        resolve_vars_if_possible(
            IF o.kind = "Trait" THEN MkPred(o.proj)
            ELSE MkKindPred("Projection", o.proj, "no_bound_vars"), res),
        o.recursion_depth)

\* project_type's result as opt_normalize_projection_type takes it: the
\* confirmed type is concrete and brings no obligations
AsProjectedTy(out) ==
    [tag |-> out.tag,
     ty |-> IF out.tag = "Progress" THEN MkTy("i32", {}) ELSE NoTy,
     obligations |-> <<>>]

\* project_and_unify_type, its end: `eq(normalized_ty, predicate.ty)` on
\* the result `r` of opt_normalize_projection_type
project_and_unify_eq(res, pa, r, projected_tag, key) ==
    CASE r.ret = "OkSome" ->
           IF pa.eq
           THEN [tag |-> "OkSome",
                 obligations |-> [k \in 1..Len(r.obligations) |->
                                    AsPredicateObligation(r.obligations[k], res)],
                 projected |-> projected_tag, ret |-> r.ret, eq |-> "Ok",
                 entry |-> r.cache[key].kind]
           ELSE [tag |-> "MismatchedProjectionTypes", obligations |-> <<>>,
                 projected |-> projected_tag, ret |-> r.ret, eq |-> "Err",
                 entry |-> r.cache[key].kind]
      [] r.ret = "OkNone" ->
           [tag |-> "OkNone", obligations |-> <<>>,
            projected |-> projected_tag, ret |-> r.ret, eq |-> "none",
            entry |-> r.cache[key].kind]
      [] OTHER ->
           [tag |-> "InProgress", obligations |-> <<>>,
            projected |-> projected_tag, ret |-> r.ret, eq |-> "none",
            entry |-> r.cache[key].kind]

\* project_and_unify_type after the cache lookup `lk`: project_type `out`
\* runs on a miss and its result is stored
project_and_unify_projected(po, res, pa, lk, out) ==
    IF lk.started
    THEN project_and_unify_eq(res, pa,
             opt_normalize_finish(lk.cache, lk.key, po.obligation.predicate.name,
                                  po.obligation.recursion_depth,
                                  AsProjectedTy(out), res, 0),
             out.tag, lk.key)
    ELSE project_and_unify_eq(res, pa, lk, "cached", lk.key)

\* project_and_unify_type (under poly_project_and_unify_type): the cache
\* lookup, project_type on a miss, then `eq(normalized_ty, predicate.ty)`.
\* `pa` holds the cache entry of the key, what assembly finds, and whether
\* the types unify
project_and_unify_type(po, res, pa) ==
    project_and_unify_projected(po, res, pa,
        opt_normalize_lookup(
            [k \in Keys |->
               IF k = ProjectionCacheKey(po.obligation.predicate.name, res)
               THEN pa.entry ELSE AbsentEntry],
            po.obligation.predicate.name, po.obligation.recursion_depth, res, 0),
        project_type(po.obligation.recursion_depth, FALSE,
                     [param_env |-> pa.param_env,
                      self_ty |-> self_ty_kind(po.obligation.predicate),
                      trait_def |-> <<>>,
                      impls |-> pa.impls, reveal |-> pa.reveal]))

\* mutant of process_projection: ambiguity records no stall
process_projection_no_stall(po, res, ans) ==
    LET r == project_and_unify_type(po, res, ans.proj)
        how == [NoHow EXCEPT !.self_ty = self_ty_kind(po.obligation.predicate),
                             !.bounds = Len(ans.proj.param_env),
                             !.projected = r.projected, !.ret = r.ret,
                             !.eq = r.eq, !.entry = r.entry]
    IN CASE r.tag = "OkSome" ->
              [result |-> "Changed", children |-> mk_pending(r.obligations),
               error |-> "none", pending |-> po, attempted |-> TRUE,
               selected |-> FALSE, how |-> how]
         [] r.tag = "OkNone" ->
              [result |-> "Unchanged", children |-> <<>>, error |-> "none",
               pending |-> po, attempted |-> TRUE, selected |-> FALSE, how |-> how]
         [] r.tag = "InProgress" ->
              [result |-> "Changed", children |-> mk_pending(<<po.obligation>>),
               error |-> "none", pending |-> po, attempted |-> TRUE,
               selected |-> FALSE, how |-> how]
         [] OTHER ->
              [result |-> "Error", children |-> <<>>,
               error |-> "CodeProjectionError", pending |-> po,
               attempted |-> TRUE, selected |-> FALSE, how |-> how]

\* mutant of process_projection: a recursive re-entry waits
process_projection_in_progress_waits(po, res, ans) ==
    LET r == project_and_unify_type(po, res, ans.proj)
        how == [NoHow EXCEPT !.self_ty = self_ty_kind(po.obligation.predicate),
                             !.bounds = Len(ans.proj.param_env),
                             !.projected = r.projected, !.ret = r.ret,
                             !.eq = r.eq, !.entry = r.entry]
    IN CASE r.tag = "OkSome" ->
              [result |-> "Changed", children |-> mk_pending(r.obligations),
               error |-> "none", pending |-> po, attempted |-> TRUE,
               selected |-> FALSE, how |-> how]
         [] r.tag \in {"OkNone", "InProgress"} ->
              [result |-> "Unchanged", children |-> <<>>, error |-> "none",
               pending |-> [po EXCEPT !.stalled_on =
                               trait_ref_infer_vars(po.obligation.predicate, res)],
               attempted |-> TRUE, selected |-> FALSE, how |-> how]
         [] OTHER ->
              [result |-> "Error", children |-> <<>>,
               error |-> "CodeProjectionError", pending |-> po,
               attempted |-> TRUE, selected |-> FALSE, how |-> how]

\* the Projection arm on the result `r` of project_and_unify_type
process_projection_result(po, res, ans, r) ==
    LET how == [NoHow EXCEPT !.self_ty = self_ty_kind(po.obligation.predicate),
                             !.bounds = Len(ans.proj.param_env),
                             !.projected = r.projected, !.ret = r.ret,
                             !.eq = r.eq, !.entry = r.entry]
    IN [result |-> CASE r.tag \in {"OkSome", "InProgress"} -> "Changed"
                     [] r.tag = "OkNone" -> "Unchanged"
                     [] OTHER -> "Error",
        children |-> CASE r.tag = "OkSome" -> mk_pending(r.obligations)
                       [] r.tag = "InProgress" -> mk_pending(<<po.obligation>>)
                       [] OTHER -> <<>>,
        error |-> IF r.tag \in {"OkSome", "OkNone", "InProgress"}
                  THEN "none" ELSE "CodeProjectionError",
        pending |-> IF r.tag = "OkNone"
                    THEN [po EXCEPT !.stalled_on =
                             trait_ref_infer_vars(po.obligation.predicate, res)]
                    ELSE po,
        attempted |-> TRUE, selected |-> FALSE, how |-> how]

\* process_obligation, the PredicateKind::Projection arm
process_projection(po, res, ans) ==
    process_projection_result(po, res, ans,
                              project_and_unify_type(po, res, ans.proj))

\* a predicate of a kind checked directly: `infer` are its unresolved
\* inference variables; for a const-equate c1 and c2 are the inference
\* variables among the types of the substitutions of each side; for a
\* subtype predicate side a is variable 1 and side b variable 2 while they
\* are in `infer`
DirectPred(kind, infer, c1, c2) ==
    [kind |-> kind, name |-> 1, infer |-> infer, binder |-> "no_bound_vars",
     c1 |-> c1, c2 |-> c2]

\* the outcome of an arm that spawns nothing and stalls on nothing
DirectResult(res_kind, err, po, chk) ==
    [result |-> res_kind, children |-> <<>>, error |-> err, pending |-> po,
     attempted |-> TRUE, selected |-> FALSE, how |-> [NoHow EXCEPT !.chk = chk]]

\* process_obligation, the PredicateKind::ObjectSafe arm
process_object_safe(po, res, ans) ==
    IF ~ans.chk.object_safe
    THEN DirectResult("Error", "CodeSelectionError", po, ans.chk)
    ELSE DirectResult("Changed", "none", po, ans.chk)

\* process_obligation, the PredicateKind::ClosureKind arm
process_closure_kind(po, res, ans) ==
    CASE ans.chk.closure_kind = "None" ->
           DirectResult("Unchanged", "none", po, ans.chk)
      [] ans.chk.closure_kind = "extends" ->
           DirectResult("Changed", "none", po, ans.chk)
      [] OTHER -> DirectResult("Error", "CodeSelectionError", po, ans.chk)

\* mutant of process_well_formed: an undecided argument records no stall
process_well_formed_no_stall(po, res, ans) ==
    IF ans.chk.wf = "None"
    THEN DirectResult("Unchanged", "none", po, ans.chk)
    ELSE [DirectResult("Changed", "none", po, ans.chk)
             EXCEPT !.children = mk_pending(ans.chk.os)]

\* process_obligation, the PredicateKind::WellFormed arm
process_well_formed(po, res, ans) ==
    IF ans.chk.wf = "None"
    THEN DirectResult("Unchanged", "none",
             [po EXCEPT !.stalled_on = SetToSeq(po.obligation.predicate.infer)],
             ans.chk)
    ELSE [DirectResult("Changed", "none", po, ans.chk)
             EXCEPT !.children = mk_pending(ans.chk.os)]

\* the inference variables that are the two sides `a` and `b` of the
\* subtype predicates registered
SubtypeSides == {1, 2}

\* process_obligation, the PredicateKind::Subtype arm
process_subtype(po, res, ans) ==
    CASE ans.chk.sub = "None" ->
           DirectResult("Unchanged", "none",
               [po EXCEPT !.stalled_on = <<1, 2>>], ans.chk)
      [] ans.chk.sub = "Ok" ->
           [DirectResult("Changed", "none", po, ans.chk)
               EXCEPT !.children = mk_pending(ans.chk.os)]
      [] OTHER -> DirectResult("Error", "CodeSubtypeError", po, ans.chk)

\* process_obligation, the PredicateKind::ConstEvaluatable arm
process_const_evaluatable(po, res, ans) ==
    IF ans.chk.ce = "Ok"
    THEN DirectResult("Changed", "none", po, ans.chk)
    ELSE DirectResult("Error", "CodeSelectionError(ConstEvalFailure)", po, ans.chk)

\* the closure `evaluate` of the ConstEquate arm: what it appends to
\* stalled_on for a side whose evaluation answered `ev`
evaluate_stalled_on(ev, side_vars, pred) ==
    IF ev = "TooGeneric" THEN SetToSeq(side_vars \cap pred.infer) ELSE <<>>

\* mutant of process_const_equate: a too-generic side wins over a reported
\* error of the other side
process_const_equate_generic_first(po, res, ans) ==
    LET pred == po.obligation.predicate
        so == evaluate_stalled_on(ans.chk.c1, pred.c1, pred)
              \o evaluate_stalled_on(ans.chk.c2, pred.c2, pred)
        po1 == [po EXCEPT !.stalled_on = so]
    IN CASE ans.chk.c1 = "Ok" /\ ans.chk.c2 = "Ok" ->
              IF ans.chk.eq THEN DirectResult("Changed", "none", po1, ans.chk)
              ELSE DirectResult("Error", "CodeConstEquateError", po1, ans.chk)
         [] "TooGeneric" \in {ans.chk.c1, ans.chk.c2} ->
              DirectResult("Unchanged", "none", po1, ans.chk)
         [] "Reported" \in {ans.chk.c1, ans.chk.c2} ->
              DirectResult("Error", "CodeSelectionError(ConstEvalFailure)", po1,
                           ans.chk)
         [] OTHER -> DirectResult("Bug", "span_bug", po1, ans.chk)

\* process_obligation, the PredicateKind::ConstEquate arm: both sides are
\* evaluated (a too-generic side appends to stalled_on), then the pair is
\* matched: (Ok, Ok), a reported error, a linted error (span_bug!), else
\* too generic
process_const_equate(po, res, ans) ==
    LET pred == po.obligation.predicate
        so == evaluate_stalled_on(ans.chk.c1, pred.c1, pred)
              \o evaluate_stalled_on(ans.chk.c2, pred.c2, pred)
        po1 == [po EXCEPT !.stalled_on = so]
    IN CASE ans.chk.c1 = "Ok" /\ ans.chk.c2 = "Ok" ->
              IF ans.chk.eq THEN DirectResult("Changed", "none", po1, ans.chk)
              ELSE DirectResult("Error", "CodeConstEquateError", po1, ans.chk)
         [] "Reported" \in {ans.chk.c1, ans.chk.c2} ->
              DirectResult("Error", "CodeSelectionError(ConstEvalFailure)", po1,
                           ans.chk)
         [] "Linted" \in {ans.chk.c1, ans.chk.c2} ->
              DirectResult("Bug", "span_bug", po1, ans.chk)
         [] OTHER -> DirectResult("Unchanged", "none", po1, ans.chk)

\* mutant of process_obligation: stalled_on is not truncated before the
\* attempt
process_obligation_keep_stalled(po, res, ans) ==
    IF ~stalled_change(po.stalled_on, res)
    THEN [result |-> "Unchanged", children |-> <<>>, error |-> "none",
          pending |-> po, attempted |-> FALSE, selected |-> FALSE, how |-> NoHow]
    ELSE LET pred == po.obligation.predicate
             pred1 == IF has_infer_types_or_consts(pred)
                      THEN resolve_vars_if_possible(pred, res) ELSE pred
             po1 == [obligation |-> [po.obligation EXCEPT !.predicate = pred1],
                     stalled_on |-> po.stalled_on]
         IN CASE pred1.kind = "Trait" -> process_trait(po1, res, ans)
              [] pred1.kind = "RegionOutlives" -> process_region_outlives(po1, res, ans)
              [] pred1.kind = "TypeOutlives" -> process_type_outlives(po1, res, ans)
              [] pred1.kind = "Projection" -> process_projection(po1, res, ans)
              [] pred1.kind = "ObjectSafe" -> process_object_safe(po1, res, ans)
              [] pred1.kind = "ClosureKind" -> process_closure_kind(po1, res, ans)
              [] pred1.kind = "WellFormed" -> process_well_formed(po1, res, ans)
              [] pred1.kind = "Subtype" -> process_subtype(po1, res, ans)
              [] pred1.kind = "ConstEvaluatable" ->
                   process_const_evaluatable(po1, res, ans)
              [] OTHER -> process_const_equate(po1, res, ans)

\* FulfillProcessor::process_obligation
process_obligation(po, res, ans) ==
    IF ~stalled_change(po.stalled_on, res)
    THEN [result |-> "Unchanged", children |-> <<>>, error |-> "none",
          pending |-> po, attempted |-> FALSE, selected |-> FALSE, how |-> NoHow]
    ELSE LET pred == po.obligation.predicate
             pred1 == IF has_infer_types_or_consts(pred)
                      THEN resolve_vars_if_possible(pred, res) ELSE pred
             po1 == [obligation |-> [po.obligation EXCEPT !.predicate = pred1],
                     stalled_on |-> <<>>]
         IN CASE pred1.kind = "Trait" -> process_trait(po1, res, ans)
              [] pred1.kind = "RegionOutlives" -> process_region_outlives(po1, res, ans)
              [] pred1.kind = "TypeOutlives" -> process_type_outlives(po1, res, ans)
              [] pred1.kind = "Projection" -> process_projection(po1, res, ans)
              [] pred1.kind = "ObjectSafe" -> process_object_safe(po1, res, ans)
              [] pred1.kind = "ClosureKind" -> process_closure_kind(po1, res, ans)
              [] pred1.kind = "WellFormed" -> process_well_formed(po1, res, ans)
              [] pred1.kind = "Subtype" -> process_subtype(po1, res, ans)
              [] pred1.kind = "ConstEvaluatable" ->
                   process_const_evaluatable(po1, res, ans)
              [] OTHER -> process_const_equate(po1, res, ans)

\* mutant of process_backedge: every cycle is taken as a co-inductive match
process_backedge_accept(cycle) == <<>>

\* FulfillProcessor::process_backedge: <<>> on a co-inductive match, else the
\* obligations of the cycle handed to report_overflow_error_cycle (fatal)
process_backedge(cycle) ==
    IF coinductive_match([k \in 1..Len(cycle) |-> cycle[k].obligation.predicate])
    THEN <<>>
    ELSE [k \in 1..Len(cycle) |-> cycle[k].obligation]

\* mutant of to_fulfillment_error: the last obligation of the backtrace
to_fulfillment_error_deepest(e) ==
    [obligation |-> e.backtrace[Len(e.backtrace)].obligation,
     code |-> e.error]

\* to_fulfillment_error: the first obligation of the backtrace and the code
to_fulfillment_error(e) ==
    [obligation |-> e.backtrace[1].obligation, code |-> e.error]

(* ---------------- obligation forest (documented contract) -------------- *)

\* a forest node
MkNode(po, parent) == [obligation |-> po, state |-> "Pending", parent |-> parent]

\* ObligationForest::register_obligation: a new pending node under `parent`
\* (0 for a root)
register_obligation_at(ns, po, parent) == Append(ns, MkNode(po, parent))

RECURSIVE Chain(_, _)
\* the node indices from the root down to node i
Chain(ns, i) ==
    IF ns[i].parent = 0 THEN <<i>> ELSE Append(Chain(ns, ns[i].parent), i)

\* the root of node i
RootOf(ns, i) == Chain(ns, i)[1]

\* the backtrace of node i: the obligations from the root to the node
Backtrace(ns, i) == LET c == Chain(ns, i) IN [k \in 1..Len(c) |-> ns[c[k]].obligation]

\* an error_at that also gives up every node still pending
MarkError_all_pending(ns, i) ==
    LET c == Chain(ns, i)
    IN [j \in 1..Len(ns) |->
          IF (\E k \in 1..Len(c) : c[k] = j) \/ ns[j].state = "Pending"
          THEN [ns[j] EXCEPT !.state = "Error"]
          ELSE ns[j]]

\* error_at: the node and the ancestors waiting on it become Error
MarkError(ns, i) ==
    LET c == Chain(ns, i)
    IN [j \in 1..Len(ns) |->
          IF \E k \in 1..Len(c) : c[k] = j THEN [ns[j] EXCEPT !.state = "Error"]
          ELSE ns[j]]

\* the children of node i
ChildrenOf(ns, i) == {j \in 1..Len(ns) : ns[j].parent = i}

\* the waiting nodes none of whose children is still unresolved
Finalizable(ns) ==
    {i \in 1..Len(ns) :
        /\ ns[i].state = "Waiting"
        /\ \A j \in ChildrenOf(ns, i) : ns[j].state = "Success"}

RECURSIVE Finalize(_)
\* a provisionally resolved node becomes Success once all its children are
Finalize(ns) ==
    IF Finalizable(ns) = {} THEN ns
    ELSE LET i == CHOOSE x \in Finalizable(ns) : TRUE
         IN Finalize([ns EXCEPT ![i].state = "Success"])

\* the cycle closed by registering child `po` under node i: the chain from
\* the nearest ancestor (or the node itself) with the same cache key down to
\* i; <<>> if there is none
CycleOf(ns, i, po) ==
    LET c == Chain(ns, i)
        hits == {k \in 1..Len(c) : as_cache_key(ns[c[k]].obligation) = as_cache_key(po)}
    IN IF hits = {} THEN <<>>
       ELSE LET a == CHOOSE k \in hits : \A h \in hits : h <= k
            IN [k \in 1..(Len(c) - a + 1) |-> ns[c[a + k - 1]].obligation]

RECURSIVE RegisterChildren(_, _, _)
\* Changed(children): each child becomes a pending node under i, unless it
\* closes a cycle, which is offered to process_backedge
RegisterChildren(st, i, kids) ==
    IF kids = <<>> \/ st.fatal # <<>> THEN st
    ELSE LET cyc == CycleOf(st.nodes, i, Head(kids))
         IN IF cyc = <<>>
            THEN RegisterChildren(
                     [st EXCEPT !.nodes = register_obligation_at(@, Head(kids), i)],
                     i, Tail(kids))
            ELSE RegisterChildren(
                     [st EXCEPT !.cycles = Append(@, cyc),
                                !.fatal = process_backedge(cyc)],
                     i, Tail(kids))

\* the first pending node at or after `from`, up to `upto` (upto + 1: none)
NextPending(ns, from, upto) ==
    LET c == {j \in from..upto : ns[j].state = "Pending"}
    IN IF c = {} THEN upto + 1 ELSE CHOOSE j \in c : \A k \in c : j <= k

\* the pending nodes, in index order
PendingNodes(ns) == SetToSeq({j \in 1..Len(ns) : ns[j].state = "Pending"})

RECURSIVE ToErrors(_, _, _)
\* ObligationForest::to_errors: every pending node becomes an error with its
\* backtrace and is removed
ToErrors(ns, todo, code) ==
    IF todo = <<>> THEN [nodes |-> ns, errors |-> <<>>]
    ELSE LET i == Head(todo)
             rest == ToErrors(MarkError(ns, i), Tail(todo), code)
         IN [nodes |-> rest.nodes,
             errors |-> <<[error |-> code, backtrace |-> Backtrace(ns, i), node |-> i]>>
                        \o rest.errors]

(* -------------------- FulfillmentContext (fulfill.rs) ------------------ *)

\* what an operation returns: Ok(()) or Err(errors)
MkResult(op, errs) == [op |-> op, ok |-> errs = <<>>, errors |-> errs]

NoResult == [op |-> "none", ok |-> TRUE, errors |-> <<>>]

\* what a process_obligation call is given, and what process_obligations
\* has made of its result: the arena, the bindings, the errors of the pass,
\* the fatal cycle and where the run stands
Pass(ns, res, errs, fat, at) ==
    [nodes |-> ns, resolved |-> res, passErrors |-> errs, fatal |-> fat,
     pc |-> at]

NoCall == [node |-> 0, result |-> "none", attempted |-> FALSE, spawned |-> 0,
           cycles |-> <<>>, how |-> NoHow,
           before |-> Pass(<<>>, {}, <<>>, <<>>, "idle"),
           after |-> Pass(<<>>, {}, <<>>, <<>>, "idle")]

\* mutant of select_extend: the errors collected so far are reported again
select_extend_again(errs, outcome) ==
    errs \o errs
    \o [k \in 1..Len(outcome.errors) |-> to_fulfillment_error(outcome.errors[k])]

\* select: `errors.extend(outcome.errors.into_iter().map(to_fulfillment_error))`
select_extend(errs, outcome) ==
    errs \o [k \in 1..Len(outcome.errors) |-> to_fulfillment_error(outcome.errors[k])]

\* mutant of select_break: the loop also stops at a pass that reported errors
select_break_on_error(outcome) == outcome.stalled \/ outcome.errors # <<>>

\* mutant of select_break: the loop stops at the first pass that made progress
select_break_inverted(outcome) == ~outcome.stalled

\* select: `if outcome.stalled { break; }`
select_break(outcome) == outcome.stalled

\* select: `if errors.is_empty() { Ok(()) } else { Err(errors) }`
select_result(op, errs) == MkResult(op, errs)

\* mutant of select_all_or_error: no early return, the ambiguities are
\* appended to the errors of the run
select_all_or_error_no_return(ns, selected) ==
    LET te == ToErrors(ns, PendingNodes(ns), "CodeAmbiguity")
    IN [result |-> MkResult("select_all_or_error",
                            selected.errors
                            \o [k \in 1..Len(te.errors) |->
                                   to_fulfillment_error(te.errors[k])]),
        nodes |-> te.nodes]

\* mutant of select_all_or_error: the pending obligations are not reported
select_all_or_error_no_ambiguity(ns, selected) ==
    [result |-> MkResult("select_all_or_error", selected.errors), nodes |-> ns]

\* select_all_or_error: `select_where_possible(infcx)?` and then the pending
\* nodes as CodeAmbiguity errors; yields the result and the forest left behind
select_all_or_error(ns, selected) ==
    IF ~selected.ok
    THEN [result |-> MkResult("select_all_or_error", selected.errors), nodes |-> ns]
    ELSE LET te == ToErrors(ns, PendingNodes(ns), "CodeAmbiguity")
         IN [result |-> MkResult("select_all_or_error",
                                 [k \in 1..Len(te.errors) |->
                                     to_fulfillment_error(te.errors[k])]),
             nodes |-> te.nodes]

\* pending_obligations: the obligations of the pending nodes
pending_obligations(ns) ==
    [k \in 1..Len(PendingNodes(ns)) |-> ns[PendingNodes(ns)[k]].obligation.obligation]

\* the nested obligations selection may yield for an obligation at `depth`
NestedChoices(depth, room, res) ==
    IF depth >= MaxDepth THEN {<<>>}
    ELSE LET ob(n) == MkObligation(resolve_vars_if_possible(MkPred(n), res), depth + 1)
             lens == {l \in 0..MaxKids : l <= room}
         IN UNION {[1..l -> {ob(n) : n \in PredNames}] : l \in lens}

\* no projection is attempted by this call
NoProjAnswer ==
    [entry |-> AbsentEntry, param_env |-> <<>>, impls |-> NoImplSource,
     reveal |-> "UserFacing", eq |-> TRUE]

\* the answers of the selection capability for one call
Answers(depth, room, res) ==
    {[must_hold |-> m, sel |-> s, nested |-> k, region |-> "none",
      proj |-> NoProjAnswer] :
        m \in BOOLEAN, s \in {"OkNone", "Err"}, k \in {<<>>}}
    \cup {[must_hold |-> m, sel |-> "OkSome", nested |-> k, region |-> "none",
           proj |-> NoProjAnswer] :
        m \in BOOLEAN, k \in NestedChoices(depth, room, res)}

\* the answers of infcx.region_outlives_predicate
RegionAnswers ==
    {[must_hold |-> FALSE, sel |-> "none", nested |-> <<>>, region |-> r,
      proj |-> NoProjAnswer] : r \in {"Ok", "Err"}}

\* what a projection step may meet: the cache entry of its key, the
\* where-clauses that match, the answer of selection, the reveal mode, and
\* whether the normalized type unifies with the expected one
ProjectionAnswers ==
    {[must_hold |-> FALSE, sel |-> "none", nested |-> <<>>, region |-> "none",
      proj |-> [entry |-> e, param_env |-> m, impls |-> a, reveal |-> rv,
                eq |-> q]] :
        e \in {AbsentEntry, InProgressEntry, AmbiguousEntry, ErrorEntry,
               NormalizedTyEntry([value |-> MkTy("i32", {}), obligations |-> <<>>])},
        m \in {x \in Matches : Len(x) <= 1},
        a \in {x \in ImplAnswers : x.id <= 1},
        rv \in Reveals, q \in BOOLEAN}

\* an answer of the capabilities that consists of a direct check
DirectAnswer(chk) ==
    [must_hold |-> FALSE, sel |-> "none", nested |-> <<>>, region |-> "none",
     proj |-> NoProjAnswer, chk |-> chk]

\* the obligations wf::obligations or subtype_predicate may return
DirectChoices(depth, room) ==
    {<<>>} \cup (IF room >= 1 /\ depth < MaxDepth
                 THEN {<<MkObligation(MkPred(1), depth + 1)>>} ELSE {})

\* the answers to a direct check of `pred`: wf::obligations is None exactly
\* for an unresolved inference variable, subtype_predicate is None exactly
\* when both sides are unresolved, closure_kind is None only while the
\* closure's kind is not inferred
DirectAnswers(pred, depth, room) ==
    CASE pred.kind = "ObjectSafe" ->
           {DirectAnswer([NoChk EXCEPT !.object_safe = b]) : b \in BOOLEAN}
      [] pred.kind = "ClosureKind" ->
           {DirectAnswer([NoChk EXCEPT !.closure_kind = k]) :
               k \in {"extends", "not_extends"}
                     \cup (IF pred.infer # {} THEN {"None"} ELSE {})}
      [] pred.kind = "WellFormed" ->
           IF pred.infer # {}
           THEN {DirectAnswer([NoChk EXCEPT !.wf = "None"])}
           ELSE {DirectAnswer([NoChk EXCEPT !.wf = "Some", !.os = os]) :
                    os \in DirectChoices(depth, room)}
      [] pred.kind = "Subtype" ->
           IF pred.infer = SubtypeSides
           THEN {DirectAnswer([NoChk EXCEPT !.sub = "None"])}
           ELSE {DirectAnswer([NoChk EXCEPT !.sub = "Err"])}
                \cup {DirectAnswer([NoChk EXCEPT !.sub = "Ok", !.os = os]) :
                         os \in DirectChoices(depth, room)}
      [] pred.kind = "ConstEvaluatable" ->
           {DirectAnswer([NoChk EXCEPT !.ce = e]) : e \in ConstEvals}
      [] OTHER ->
           {DirectAnswer([NoChk EXCEPT !.c1 = a, !.c2 = b, !.eq = q]) :
               a \in ConstEvals, b \in ConstEvals, q \in BOOLEAN}

\* the answers the capabilities may give to the call on obligation `po`
AnswersFor(po, room, res) ==
    CASE po.obligation.predicate.kind = "Trait" ->
           Answers(po.obligation.recursion_depth, room, res)
      [] po.obligation.predicate.kind = "Projection" -> ProjectionAnswers
      [] po.obligation.predicate.kind \in {"RegionOutlives", "TypeOutlives"} ->
           RegionAnswers
      [] OTHER ->
           DirectAnswers(resolve_vars_if_possible(po.obligation.predicate, res),
                         po.obligation.recursion_depth, room)

FInit ==
    /\ nodes = <<>>
    /\ resolved = {}
    /\ pc = "idle"
    /\ mode = "none"
    /\ index = 1
    /\ limit = 0
    /\ stalled = TRUE
    /\ passErrors = <<>>
    /\ errors = <<>>
    /\ outcomes = <<>>
    /\ result = NoResult
    /\ fatal = <<>>
    /\ last = NoCall
    /\ blocked = FALSE
    /\ calls = 0

\* register_predicate_obligation: resolve, then a new root with stalled_on empty
register_predicate_obligation ==
    /\ UNCHANGED <<cvars, pvars, nreq, order>>
    /\ pc = "idle"
    /\ Len(nodes) < MaxNodes
    /\ \E n \in PredNames :
         nodes' = register_obligation_at(nodes,
                     [obligation |-> MkObligation(
                                        resolve_vars_if_possible(MkPred(n), resolved), 0),
                      stalled_on |-> <<>>], 0)
    /\ UNCHANGED <<resolved, pc, mode, index, limit, stalled, passErrors,
                   errors, outcomes, result, fatal, last, blocked, calls>>

\* the Projection, TypeOutlives and RegionOutlives predicates registered
KindPreds ==
    {MkKindPred("Projection", n, "no_bound_vars") : n \in PredNames}
    \cup {MkKindPred("TypeOutlives", 1, b) : b \in Binders}
    \cup {MkKindPred("RegionOutlives", 1, "no_bound_vars")}

\* the recursion depths of the obligations the callers register: a
\* projection obligation may come from a normalization already past the
\* recursion limit
KindDepths(pred) ==
    IF pred.kind = "Projection" /\ pred.name = 1
    THEN {0, RecursionLimit + 1} ELSE {0}

\* register_predicate_obligation for a predicate of another kind
register_kind_obligation ==
    /\ UNCHANGED <<cvars, pvars, nreq, order>>
    /\ pc = "idle"
    /\ Len(nodes) < MaxRoots
    /\ \E pred \in KindPreds : \E depth \in KindDepths(pred) :
         nodes' = register_obligation_at(nodes,
                     [obligation |-> MkObligation(
                                        resolve_vars_if_possible(pred, resolved),
                                        depth),
                      stalled_on |-> <<>>], 0)
    /\ UNCHANGED <<resolved, pc, mode, index, limit, stalled, passErrors,
                   errors, outcomes, result, fatal, last, blocked, calls>>

\* the predicates of the kinds checked directly
DirectPreds ==
    {DirectPred("ObjectSafe", {}, {}, {}), DirectPred("ConstEvaluatable", {}, {}, {}),
     DirectPred("ClosureKind", {1}, {}, {})}
    \cup {DirectPred("WellFormed", i, {}, {}) : i \in {{}, {1}}}
    \cup {DirectPred("Subtype", i, {}, {}) : i \in {{}, {1}, SubtypeSides}}
    \cup {DirectPred("ConstEquate", a \cup b, a, b) : a \in {{}, {1}}, b \in {{}, {2}}}

\* register_predicate_obligation for a predicate checked directly
register_direct_obligation ==
    /\ UNCHANGED <<cvars, pvars, nreq, order>>
    /\ pc = "idle"
    /\ Len(nodes) < MaxRoots
    /\ \E pred \in DirectPreds :
         nodes' = register_obligation_at(nodes,
                     [obligation |-> MkObligation(
                                        resolve_vars_if_possible(pred, resolved), 0),
                      stalled_on |-> <<>>], 0)
    /\ UNCHANGED <<resolved, pc, mode, index, limit, stalled, passErrors,
                   errors, outcomes, result, fatal, last, blocked, calls>>

\* inference makes progress: a variable becomes known
infer_progress ==
    /\ UNCHANGED <<cvars, pvars, nreq, order>>
    /\ pc \in {"idle", "pass"}
    /\ \E v \in Vars \ resolved : resolved' = resolved \cup {v}
    /\ UNCHANGED <<nodes, pc, mode, index, limit, stalled, passErrors,
                   errors, outcomes, result, fatal, last, blocked, calls>>

\* select_where_possible / select_all_or_error is called: select starts its
\* first pass
select_call ==
    /\ UNCHANGED <<cvars, pvars, nreq, order>>
    /\ pc = "idle"
    /\ calls < MaxCalls
    /\ calls' = calls + 1
    /\ \E m \in {"select_where_possible", "select_all_or_error"} : mode' = m
    /\ pc' = "pass"
    /\ index' = NextPending(nodes, 1, Len(nodes))
    /\ limit' = Len(nodes)
    /\ stalled' = TRUE
    /\ passErrors' = <<>>
    /\ errors' = <<>>
    /\ outcomes' = <<>>
    /\ result' = NoResult
    /\ last' = NoCall
    /\ blocked' = FALSE
    /\ UNCHANGED <<nodes, resolved, fatal>>

\* process_obligations, after the processor returned `r` for the node at
\* `index`: the node's obligation, its children, completion, error marking
process_step_result(r, ans) ==
    LET ns1 == [nodes EXCEPT ![index].obligation = r.pending]
        reg == RegisterChildren(
                   [nodes |-> [ns1 EXCEPT ![index].state = "Waiting"],
                    cycles |-> <<>>, fatal |-> <<>>],
                   index, r.children)
    IN /\ Len(r.children) <= MaxNodes - Len(nodes)
       /\ blocked' = (blocked \/ r.result = "Unchanged")
       /\ CASE r.result = "Unchanged" ->
                 /\ nodes' = ns1
                 /\ UNCHANGED <<stalled, passErrors, fatal, pc>>
            [] r.result = "Changed" ->
                 /\ nodes' = IF reg.fatal # <<>> THEN reg.nodes
                             ELSE Finalize(reg.nodes)
                 /\ stalled' = FALSE
                 /\ fatal' = reg.fatal
                 /\ pc' = IF reg.fatal # <<>> THEN "aborted" ELSE pc
                 /\ UNCHANGED passErrors
            [] r.result = "Bug" ->
                 /\ nodes' = ns1
                 /\ pc' = "ice"
                 /\ UNCHANGED <<stalled, passErrors, fatal>>
            [] OTHER ->
                 /\ nodes' = MarkError(ns1, index)
                 /\ stalled' = FALSE
                 /\ passErrors' = Append(passErrors,
                        [error |-> r.error, backtrace |-> Backtrace(ns1, index),
                         node |-> index])
                 /\ UNCHANGED <<fatal, pc>>
       /\ last' = [node |-> index, result |-> r.result,
                   attempted |-> r.attempted,
                   spawned |-> IF r.selected /\ ans.sel = "OkSome"
                               THEN Len(ans.nested) ELSE Len(r.children),
                   cycles |-> IF r.result = "Changed" THEN reg.cycles ELSE <<>>,
                   how |-> r.how,
                   before |-> Pass(nodes, resolved, passErrors, fatal, pc),
                   after |-> Pass(nodes', resolved, passErrors', fatal', pc')]

\* process_obligations: the processor is invoked on the next pending node
process_step ==
    /\ UNCHANGED <<cvars, pvars, nreq, order>>
    /\ pc = "pass"
    /\ index <= limit
    /\ \E ans \in AnswersFor(nodes[index].obligation, MaxNodes - Len(nodes),
                             resolved) :
         process_step_result(
             process_obligation(nodes[index].obligation, resolved, ans), ans)
    /\ index' = NextPending(nodes, index + 1, limit)
    /\ UNCHANGED <<resolved, mode, limit, errors, outcomes, result, calls>>

\* select: a pass has ended; extend `errors`, break if stalled, else loop
select_loop ==
    /\ UNCHANGED <<cvars, pvars, nreq, order>>
    /\ pc = "pass"
    /\ index > limit
    /\ LET outcome == [errors |-> passErrors, stalled |-> stalled]
       IN /\ errors' = select_extend(errors, outcome)
          /\ outcomes' = Append(outcomes, outcome)
          /\ pc' = IF select_break(outcome) THEN "stalled" ELSE "pass"
    /\ index' = NextPending(nodes, 1, Len(nodes))
    /\ limit' = Len(nodes)
    /\ stalled' = TRUE
    /\ passErrors' = <<>>
    /\ UNCHANGED <<nodes, resolved, mode, result, fatal, last, blocked, calls>>

\* select_where_possible returns what select returns
select_where_possible_return ==
    /\ UNCHANGED <<cvars, pvars, nreq, order>>
    /\ pc = "stalled"
    /\ mode = "select_where_possible"
    /\ result' = select_result("select_where_possible", errors)
    /\ pc' = "idle"
    /\ UNCHANGED <<nodes, resolved, mode, index, limit, stalled, passErrors,
                   errors, outcomes, fatal, last, blocked, calls>>

\* select_all_or_error returns
select_all_or_error_return ==
    /\ UNCHANGED <<cvars, pvars, nreq, order>>
    /\ pc = "stalled"
    /\ mode = "select_all_or_error"
    /\ LET r == select_all_or_error(nodes, select_result("select_where_possible", errors))
       IN /\ result' = r.result
          /\ nodes' = r.nodes
    /\ pc' = "idle"
    /\ UNCHANGED <<resolved, mode, index, limit, stalled, passErrors,
                   errors, outcomes, fatal, last, blocked, calls>>

(* --------------- projection cache: the calls (project.rs) -------------- *)

CInit ==
    /\ cache = [k \in Keys |-> AbsentEntry]
    /\ cstack = <<>>
    /\ tyvars = 0
    /\ assembled = [k \in Keys |-> 0]
    /\ creq = NoRequest

\* a normalization request arrives, from outside or from within the
\* project_type call on top of the stack: the cache lookup
normalize_request ==
    /\ tyvars < MaxTyVars
    /\ \E p \in Projs, via \in EntryPoints :
         LET depth == Len(cstack)
             r == opt_normalize_lookup(cache, p, depth, resolved, tyvars)
             n == entry_result(via, r, p, depth)
         IN /\ r.started => Len(cstack) < MaxStack
            /\ cache' = r.cache
            /\ tyvars' = n.tyvars
            /\ cstack' = IF r.started
                         THEN Append(cstack, [key |-> r.key, proj |-> p,
                                              depth |-> depth, via |-> via])
                         ELSE cstack
            /\ assembled' = IF r.started
                            THEN [assembled EXCEPT ![r.key] = @ + 1]
                            ELSE assembled
            /\ creq' = [key |-> r.key, proj |-> p, depth |-> depth, via |-> via,
                        ret |-> r.ret, value |-> n.value,
                        obligations |-> n.obligations,
                        hit |-> cache[r.key].kind,
                        stored |-> cache[r.key].obligations,
                        resolved |-> resolved, out |-> "none",
                        found |-> Found(cache, cstack, tyvars, assembled)]
    /\ UNCHANGED <<fvars, pvars, nreq, order>>

\* the project_type call on top of the stack returns and
\* opt_normalize_projection_type writes the cache and returns
normalize_return ==
    /\ cstack # <<>>
    /\ tyvars < MaxTyVars
    /\ LET f == cstack[Len(cstack)]
       IN \E out \in ProjectOutcomes(f.depth) :
            LET r == opt_normalize_finish(cache, f.key, f.proj, f.depth, out,
                                          resolved, tyvars)
                n == entry_result(f.via, r, f.proj, f.depth)
            IN /\ cache' = r.cache
               /\ tyvars' = n.tyvars
               /\ creq' = [key |-> f.key, proj |-> f.proj, depth |-> f.depth,
                           via |-> f.via, ret |-> r.ret, value |-> n.value,
                           obligations |-> n.obligations, hit |-> "computed",
                           stored |-> <<>>, resolved |-> resolved,
                           out |-> out.tag,
                           found |-> Found(cache, cstack, tyvars, assembled)]
    /\ cstack' = SubSeq(cstack, 1, Len(cstack) - 1)
    /\ UNCHANGED <<assembled, fvars, pvars, nreq, order>>

\* inference makes progress while normalizing
cache_infer_progress ==
    /\ \E v \in Vars \ resolved : resolved' = resolved \cup {v}
    /\ UNCHANGED <<nodes, pc, mode, index, limit, stalled, passErrors,
                   errors, outcomes, result, fatal, last, blocked, calls>>
    /\ UNCHANGED <<cvars, pvars, nreq, order>>

(* ------------ poly_project_and_unify_type in a snapshot ----------------- *)

\* the inference state a snapshot covers: the projection cache
\* (infcx.inner.projection_cache()), the type variables made, and the
\* bindings of the inference variables
InferState(c, tv, res) == [cache |-> c, tyvars |-> tv, resolved |-> res]

\* mutant of commit_if_ok: the changes are kept whatever the closure returns
commit_if_ok_always(snapshot, inner, is_ok) == inner

\* infcx.commit_if_ok(f): the state f left is kept when f returned Ok, and
\* the state of the snapshot is restored when it returned Err
commit_if_ok(snapshot, inner, is_ok) == IF is_ok THEN inner ELSE snapshot

\* what `eq(normalized_ty, obligation.predicate.ty)` may do: it succeeds or
\* fails, having bound some of the variables still unknown
EqOutcomes(res) == {[ok |-> b, binds |-> vs] : b \in BOOLEAN, vs \in SUBSET (Vars \ res)}

\* project_and_unify_type after opt_normalize_projection_type answered `r`:
\* the result and the inference state it leaves
project_and_unify_type_eq(st, r, eq) ==
    CASE r.ret = "OkSome" ->
           [result |-> IF eq.ok THEN "Ok(Ok(Some))" ELSE "Err(Mismatched)",
            st |-> InferState(r.cache, r.tyvars, st.resolved \cup eq.binds)]
      [] r.ret = "OkNone" ->
           [result |-> "Ok(Ok(None))", st |-> InferState(r.cache, r.tyvars, st.resolved)]
      [] OTHER ->
           [result |-> "Ok(Err(InProgress))",
            st |-> InferState(r.cache, r.tyvars, st.resolved)]

\* the state and the record after poly_project_and_unify_type ran as `a`
\* in the snapshot `snapshot`
poly_project_and_unify_type_result(snapshot, a, key, p, depth) ==
    LET st == commit_if_ok(snapshot, a.st, a.result # "Err(Mismatched)")
    IN /\ cache' = st.cache
       /\ tyvars' = st.tyvars
       /\ resolved' = st.resolved
       /\ creq' = [key |-> key, proj |-> p, depth |-> depth, via |-> "poly",
                   ret |-> a.result, before |-> snapshot, inner |-> a.st]

\* poly_project_and_unify_type is called, from outside or from within the
\* project_type call on top of the stack: the snapshot is taken and the
\* cache is looked up. On a hit the call finishes at once; on a miss
\* project_type starts
poly_project_and_unify_type_hit(lk, p) ==
    /\ ~lk.started
    /\ \E eq \in EqOutcomes(resolved) :
          poly_project_and_unify_type_result(
              InferState(cache, tyvars, resolved),
              project_and_unify_type_eq(InferState(cache, tyvars, resolved), lk, eq),
              lk.key, p, Len(cstack))
    /\ UNCHANGED cstack

poly_project_and_unify_type_miss(lk, p) ==
    /\ lk.started
    /\ Len(cstack) < MaxStack
    /\ cache' = lk.cache
    /\ cstack' = Append(cstack, [key |-> lk.key, proj |-> p, depth |-> Len(cstack),
                                 via |-> "poly",
                                 snapshot |-> InferState(cache, tyvars, resolved)])
    /\ creq' = [key |-> lk.key, proj |-> p, depth |-> Len(cstack), via |-> "poly",
                ret |-> "none", before |-> InferState(cache, tyvars, resolved),
                inner |-> InferState(lk.cache, tyvars, resolved)]
    /\ UNCHANGED <<tyvars, resolved>>

poly_project_and_unify_type_call ==
    /\ tyvars < MaxTyVars
    /\ \E p \in Projs :
          \/ poly_project_and_unify_type_hit(
                 opt_normalize_lookup(cache, p, Len(cstack), resolved, tyvars), p)
          \/ poly_project_and_unify_type_miss(
                 opt_normalize_lookup(cache, p, Len(cstack), resolved, tyvars), p)
    /\ UNCHANGED <<nodes, pc, mode, index, limit, stalled, passErrors,
                   errors, outcomes, result, fatal, last, blocked, calls>>
    /\ UNCHANGED <<assembled, pvars, nreq, order>>

\* the project_type call on top of the stack returns `out`:
\* opt_normalize_projection_type writes the cache, the types are equated,
\* and commit_if_ok commits or rolls back to the call's snapshot
poly_project_and_unify_type_return ==
    /\ cstack # <<>>
    /\ tyvars < MaxTyVars
    /\ LET f == cstack[Len(cstack)]
       IN \E eq \in EqOutcomes(resolved) : \E out \in ProjectOutcomes(f.depth) :
            /\ ~value_within_limit(f.depth) => out.tag = "TraitSelectionError"
            /\ poly_project_and_unify_type_result(
                   f.snapshot,
                   project_and_unify_type_eq(
                       InferState(cache, tyvars, resolved),
                       opt_normalize_finish(cache, f.key, f.proj, f.depth, out,
                                            resolved, tyvars),
                       eq),
                   f.key, f.proj, f.depth)
    /\ cstack' = SubSeq(cstack, 1, Len(cstack) - 1)
    /\ UNCHANGED <<nodes, pc, mode, index, limit, stalled, passErrors,
                   errors, outcomes, result, fatal, last, blocked, calls>>
    /\ UNCHANGED <<assembled, pvars, nreq, order>>

(* -------------------- project_type: the call, by stage ------------------ *)

\* mutant of StageAfter: the trait definition's bounds are scanned before
\* the environment's
StageAfter_trait_def_first(stage) ==
    CASE stage = "call" -> "trait_def"
      [] stage = "trait_def" -> "param_env"
      [] stage = "param_env" -> "impls"
      [] OTHER -> "match"

\* project_type, the order of its steps: assemble_candidates_from_param_env,
\* assemble_candidates_from_trait_def, assemble_candidates_from_impls, then
\* the match on the candidate set
StageAfter(stage) ==
    CASE stage = "call" -> "param_env"
      [] stage = "param_env" -> "trait_def"
      [] stage = "trait_def" -> "impls"
      [] OTHER -> "match"

PInit ==
    /\ pstage = "idle"
    /\ pobligation = [recursion_depth |-> 0, references_error |-> FALSE,
                      reveal |-> "UserFacing", self_ty |-> "none"]
    /\ impl_source = NoImplSource
    /\ candidates = NoneSet
    /\ trail = <<>>
    /\ projected = NotProjected

\* project_type up to the first assembly step: the recursion limit, the
\* error type, the empty candidate set
project_type_call ==
    /\ pstage \in {"idle", "done"}
    /\ \E depth \in 0..(RecursionLimit + 1), referr \in BOOLEAN, reveal \in Reveals :
         /\ pobligation' = [recursion_depth |-> depth, references_error |-> referr,
                            reveal |-> reveal, self_ty |-> "none"]
         /\ IF ~value_within_limit(depth)
            THEN /\ projected' = TraitSelectionError("Overflow")
                 /\ pstage' = "done"
            ELSE IF referr
            THEN /\ projected' = ProgressError
                 /\ pstage' = "done"
            ELSE /\ projected' = NotProjected
                 /\ pstage' = StageAfter("call")
    /\ candidates' = NoneSet
    /\ trail' = <<>>
    /\ impl_source' = NoImplSource
    /\ UNCHANGED <<fvars, cvars, nreq, order>>

assemble_candidates_from_param_env ==
    /\ pstage = "param_env"
    /\ \E matches \in Matches :
         LET r == assemble_candidates_from_predicates(candidates, trail,
                                                      "ParamEnv", matches)
         IN /\ candidates' = r.set
            /\ trail' = r.trail
    /\ pstage' = StageAfter("param_env")
    /\ UNCHANGED <<pobligation, projected, impl_source, fvars, cvars, nreq, order>>

assemble_candidates_from_trait_def ==
    /\ pstage = "trait_def"
    /\ \E self_ty \in SelfTys, matches \in Matches :
         LET r == trait_def_candidates(candidates, trail, self_ty, matches)
         IN /\ candidates' = r.set
            /\ trail' = r.trail
            /\ pobligation' = [pobligation EXCEPT !.self_ty = self_ty]
    /\ pstage' = StageAfter("trait_def")
    /\ UNCHANGED <<projected, impl_source, fvars, cvars, nreq, order>>

assemble_candidates_from_impls ==
    /\ pstage = "impls"
    /\ \E a \in ImplAnswers :
         LET r == impl_candidates(candidates, trail, a, pobligation.reveal)
         IN /\ candidates' = r.set
            /\ trail' = r.trail
            /\ impl_source' = a
    /\ pstage' = StageAfter("impls")
    /\ UNCHANGED <<pobligation, projected, fvars, cvars, nreq, order>>

\* project_type, the final `match candidates`
project_type_return ==
    /\ pstage = "match"
    /\ projected' = project_type_match(candidates)
    /\ pstage' = "done"
    /\ UNCHANGED <<pobligation, candidates, trail, impl_source, fvars, cvars, nreq, order>>

(* ------------ ProjectionTyCandidateSet on its own (project.rs) ---------- *)

\* push_candidate with any candidate on the set as it is; the panic of the
\* unreachable!() arm ends the use of the set
candidate_set_push ==
    /\ pstage = "idle"
    /\ Len(trail) < MaxPushes
    /\ candidates # UnreachableSet
    /\ \E source \in Sources, id \in CandidateIds :
         LET candidate == MkCandidate(source, id)
             r == push_candidate(candidates, candidate)
         IN /\ candidates' = r.set
            /\ trail' = Append(trail, MkPush(candidates, candidate, r))
    /\ UNCHANGED <<pstage, pobligation, projected, impl_source, fvars, cvars,
                   nreq, order>>

\* mark_ambiguous
candidate_set_mark_ambiguous ==
    /\ pstage = "idle"
    /\ Len(trail) < MaxPushes
    /\ candidates # UnreachableSet
    /\ candidates' = mark_ambiguous(candidates)
    /\ trail' = Append(trail, MkMark("mark_ambiguous", candidates,
                                     mark_ambiguous(candidates)))
    /\ UNCHANGED <<pstage, pobligation, projected, impl_source, fvars, cvars,
                   nreq, order>>

\* mark_error
candidate_set_mark_error ==
    /\ pstage = "idle"
    /\ Len(trail) < MaxPushes
    /\ candidates # UnreachableSet
    /\ candidates' = mark_error(candidates, "Unimplemented")
    /\ trail' = Append(trail, MkMark("mark_error", candidates,
                                     mark_error(candidates, "Unimplemented")))
    /\ UNCHANGED <<pstage, pobligation, projected, impl_source, fvars, cvars,
                   nreq, order>>

\* `let mut candidates = ProjectionTyCandidateSet::None`: a new set
candidate_set_new ==
    /\ pstage = "idle"
    /\ trail # <<>>
    /\ candidates' = NoneSet
    /\ trail' = <<>>
    /\ UNCHANGED <<pstage, pobligation, projected, impl_source, fvars, cvars,
                   nreq, order>>

(* ----------------- confirm_impl_candidate (project.rs) ----------------- *)

U32 == [ctor |-> "u32", n |-> 0, args |-> <<>>, bound |-> FALSE]

BoxTy(t) == [ctor |-> "Box", n |-> 0, args |-> <<t>>, bound |-> FALSE]

\* the generic parameter with index i (0-based) of the item a type is
\* written in
ParamTy(i) == [ctor |-> "Param", n |-> i, args |-> <<>>, bound |-> FALSE]

\* tcx.ty_error()
TyError == [ctor |-> "Error", n |-> 0, args |-> <<>>, bound |-> FALSE]

\* the type of an associated item that has no value
NoItemTy == [ctor |-> "none", n |-> 0, args |-> <<>>, bound |-> FALSE]

RECURSIVE subst_ty(_, _)
\* ty.subst(tcx, substs): every parameter is replaced by the substitution
\* at its index
subst_ty(ty, substs) ==
    IF ty.ctor = "Param" THEN substs[ty.n + 1]
    ELSE [ty EXCEPT !.args = [k \in 1..Len(ty.args) |-> subst_ty(ty.args[k], substs)]]

\* substs.rebase_onto(tcx, source_ancestor, target_substs): target_substs,
\* then the own substitutions past the `count` parameters of source_ancestor
rebase_onto(substs, count, target_substs) ==
    target_substs \o SubSeq(substs, count + 1, Len(substs))

\* the impls of the program. Every trait has the one parameter Self and
\* every impl is `impl<T> Trait for Vec<T>`; they differ in the associated
\* type:
\*   1  trait MyTrait { type AssocType; }          type AssocType = Box<T>;
\*   2  trait X { type A<Y>; }                     type A<Y> = Box<Y>;
\*   3  trait MyTrait { type AssocType; }          (no definition)
\*   4  the specialization graph of the trait has errors
\*   5  trait MyTrait { type AssocType = Box<Self>; }   (taken from the trait)
\*   6  trait X { type A<Y>; }                     type A = Box<T>;
\* `own` is the number of parameters the trait gives the associated type,
\* `count` is generics_of(item).count() of the item found
ImplDefs ==
    <<[generics |-> 1, trait_generics |-> 1, own |-> 0, found |-> TRUE,
       has_value |-> TRUE, defining_node |-> "Impl", ty |-> BoxTy(ParamTy(0)),
       count |-> 1],
      [generics |-> 1, trait_generics |-> 1, own |-> 1, found |-> TRUE,
       has_value |-> TRUE, defining_node |-> "Impl", ty |-> BoxTy(ParamTy(1)),
       count |-> 2],
      [generics |-> 1, trait_generics |-> 1, own |-> 0, found |-> TRUE,
       has_value |-> FALSE, defining_node |-> "Trait", ty |-> NoItemTy,
       count |-> 1],
      [generics |-> 1, trait_generics |-> 1, own |-> 0, found |-> FALSE,
       has_value |-> FALSE, defining_node |-> "Trait", ty |-> NoItemTy,
       count |-> 1],
      [generics |-> 1, trait_generics |-> 1, own |-> 0, found |-> TRUE,
       has_value |-> TRUE, defining_node |-> "Trait", ty |-> BoxTy(ParamTy(0)),
       count |-> 1],
      [generics |-> 1, trait_generics |-> 1, own |-> 1, found |-> TRUE,
       has_value |-> TRUE, defining_node |-> "Impl", ty |-> BoxTy(ParamTy(0)),
       count |-> 1]>>

\* tcx.impl_trait_ref(impl).subst(substs).substs: the impl is for Vec<T>
impl_trait_ref_substs(impl_def_id, substs) == <<subst_ty(VecTy(ParamTy(0)), substs)>>

\* translate_substs: the substitutions of the impl as substitutions of the
\* node that defines the item: unchanged for the impl itself, the trait
\* reference's substitutions in front for the trait
translate_substs(impl_def_id, substs, defining_node) ==
    IF defining_node = "Impl" THEN substs
    ELSE rebase_onto(substs, ImplDefs[impl_def_id].generics,
                     impl_trait_ref_substs(impl_def_id, substs))

\* assoc_ty_def: the leaf definition of the associated type, or
\* Err(ErrorReported)
assoc_ty_def(impl_def_id) ==
    IF ImplDefs[impl_def_id].found
    THEN [tag |-> "Ok", item |-> ImplDefs[impl_def_id]]
    ELSE [tag |-> "ErrorReported", item |-> ImplDefs[impl_def_id]]

\* Progress { ty, obligations }
MkProgress(ty, obligations) ==
    [tag |-> "Progress", ty |-> ty, obligations |-> obligations]

\* mutant of confirm_impl_candidate: the obligation's substitutions are
\* applied as they are
confirm_impl_candidate_no_rebase(obligation, src) ==
    LET assoc_ty == assoc_ty_def(src.impl_def_id)
        substs == translate_substs(src.impl_def_id, obligation.substs,
                                   assoc_ty.item.defining_node)
    IN IF assoc_ty.tag = "ErrorReported" THEN MkProgress(TyError, src.nested)
       ELSE IF ~assoc_ty.item.has_value THEN MkProgress(TyError, src.nested)
       ELSE IF Len(substs) # assoc_ty.item.count
       THEN MkProgress(TyError, src.nested)
       ELSE MkProgress(subst_ty(assoc_ty.item.ty, substs), src.nested)

\* confirm_impl_candidate
confirm_impl_candidate(obligation, src) ==
    LET assoc_ty == assoc_ty_def(src.impl_def_id)
        rebased == rebase_onto(obligation.substs,
                               ImplDefs[src.impl_def_id].trait_generics, src.substs)
        substs == translate_substs(src.impl_def_id, rebased,
                                   assoc_ty.item.defining_node)
    IN IF assoc_ty.tag = "ErrorReported" THEN MkProgress(TyError, src.nested)
       ELSE IF ~assoc_ty.item.has_value THEN MkProgress(TyError, src.nested)
       ELSE IF Len(substs) # assoc_ty.item.count
       THEN MkProgress(TyError, src.nested)
       ELSE MkProgress(subst_ty(assoc_ty.item.ty, substs), src.nested)

\* the types the impl's parameter T and the associated type's own
\* parameter are instantiated with
ElemTys == {U32, I32, VecTy(U32)}

OwnTys == {U32, I32, InferTy(1)}

\* the nested obligations selection returned with the impl
NestedObligations ==
    UNION {[1..n -> {TraitObligation(p, 1) : p \in Projs}] : n \in 0..MaxKids}

\* project_type confirms the impl candidate selection found for
\* `<Vec<elem> as Trait>::Assoc<own..>`: selection matched Vec<elem>
\* against the impl's Vec<T>
confirm_impl_candidate_call ==
    /\ pstage \in {"idle", "confirmed"}
    /\ \E impl_def_id \in 1..Len(ImplDefs), elem \in ElemTys,
          nested \in NestedObligations :
         \E own \in [1..ImplDefs[impl_def_id].own -> OwnTys] :
            LET obligation == [impl_def_id |-> impl_def_id,
                               substs |-> <<VecTy(elem)>> \o own]
                src == [impl_def_id |-> impl_def_id, substs |-> <<elem>>,
                        nested |-> nested]
            IN /\ pobligation' = obligation
               /\ impl_source' = src
               /\ projected' = confirm_impl_candidate(obligation, src)
    /\ pstage' = "confirmed"
    /\ UNCHANGED <<candidates, trail, fvars, cvars, nreq, order>>

(* --------------------- normalize, the call (project.rs) ----------------- *)

\* the values handed to normalize
NormValues ==
    {I32, VecTy(I32), InferTy(1), VecTy(InferTy(1)),
     ProjectionTree(1, FALSE), ProjectionTree(2, FALSE), ProjectionTree(1, TRUE),
     VecTy(ProjectionTree(1, FALSE)),
     OpaqueTy(1, <<>>), OpaqueTy(2, <<>>), OpaqueTy(3, <<>>),
     OpaqueTy(1, <<ProjectionTree(1, FALSE)>>), VecTy(OpaqueTy(1, <<>>))}

RECURSIVE mentions(_, _, _)
\* projection `p` occurs in `ty`, or in the concrete type of an opaque type
\* of `ty` (unfolded at most `fuel` times)
mentions(ty, p, fuel) ==
    \/ ty.ctor = "Projection" /\ ty.n = p
    \/ \E k \in 1..Len(ty.args) : mentions(ty.args[k], p, fuel)
    \/ ty.ctor = "Opaque" /\ fuel > 0 /\ mentions(type_of(ty), p, fuel - 1)

\* what project_type may answer in a call on `value`, per projection: only
\* the answers for the projections the value mentions are enumerated
OutsFor(value) ==
    {o \in [Projs -> {"Progress", "NoProgress", "TooManyCandidates",
                      "TraitSelectionError"}] :
        \A p \in Projs :
            ~mentions(value, p, RecursionLimit + 2) => o[p] = "Progress"}

NoNormalize ==
    [value |-> I32, reveal |-> "none", depth |-> 0, out |-> I32,
     obligations |-> <<>>, lookups |-> 0, assembled |-> 0, unfolded |-> <<>>,
     overflow |-> FALSE, calls |-> 0, resolved |-> {}, touched |-> FALSE,
     made |-> 0]

NInit == nreq = NoNormalize

\* normalize_with_depth: a normalizer is made for the value and folds it
normalize_with_depth ==
    /\ cstack = <<>>
    /\ nreq.calls < MaxNormalize
    /\ \E value \in NormValues, reveal \in Reveals, depth \in 0..(RecursionLimit + 1) :
       \E outs \in OutsFor(value) :
         LET env == [reveal |-> reveal, res |-> resolved, outs |-> outs]
             r == fold(value, MkNormalizer(cache, tyvars, depth), env)
         IN /\ r.st.tyvars <= MaxTyVars
            /\ cache' = r.st.cache
            /\ tyvars' = r.st.tyvars
            /\ nreq' = [value |-> value, reveal |-> reveal, depth |-> depth,
                        out |-> r.ty, obligations |-> r.st.obligations,
                        lookups |-> r.st.lookups, assembled |-> r.st.assembled,
                        unfolded |-> r.st.unfolded, overflow |-> r.st.overflow,
                        calls |-> nreq.calls + 1, resolved |-> resolved,
                        touched |-> r.st.cache # cache,
                        made |-> r.st.tyvars - tyvars]
    /\ UNCHANGED <<cstack, assembled, creq, fvars, pvars, order>>

\* inference makes progress between two normalize calls
normalize_infer_progress ==
    /\ \E v \in Vars \ resolved : resolved' = resolved \cup {v}
    /\ UNCHANGED <<nodes, pc, mode, index, limit, stalled, passErrors,
                   errors, outcomes, result, fatal, last, blocked, calls>>
    /\ UNCHANGED <<cvars, pvars, nreq, order>>

(* ------------- select with a free order within each pass -------------- *)

\* process_obligations on node i of the forest `ns`, after the processor
\* returned `r`: the forest after it, whether the pass made progress, the
\* error reported and the fatal cycle
ProcessNodeResult(ns, i, r) ==
    LET ns1 == [ns EXCEPT ![i].obligation = r.pending]
        reg == RegisterChildren(
                   [nodes |-> [ns1 EXCEPT ![i].state = "Waiting"],
                    cycles |-> <<>>, fatal |-> <<>>],
                   i, r.children)
    IN CASE r.result = "Unchanged" ->
              [nodes |-> ns1, progress |-> FALSE, errors |-> <<>>, fatal |-> <<>>]
         [] r.result = "Changed" ->
              [nodes |-> IF reg.fatal # <<>> THEN reg.nodes ELSE Finalize(reg.nodes),
               progress |-> TRUE, errors |-> <<>>, fatal |-> reg.fatal]
         [] OTHER ->
              [nodes |-> MarkError(ns1, i), progress |-> TRUE,
               errors |-> <<[error |-> r.error, backtrace |-> Backtrace(ns1, i),
                             node |-> i]>>,
               fatal |-> <<>>]

\* one call of the processor on node i of the forest `ns`, as
\* process_obligations applies it
ProcessNode(ns, res, i, ans) ==
    ProcessNodeResult(ns, i, process_obligation(ns[i].obligation, res, ans))

\* the kids a selection may name
KidChoices == UNION {[1..l -> PredNames] : l \in 0..MaxKids}

\* the fixed answers of the capabilities: per predicate, whether it must
\* hold, what select says, and the predicates of the nested obligations
Oracles ==
    [PredNames -> {[must_hold |-> m, sel |-> sl, kids |-> k] :
                      m \in BOOLEAN, sl \in {"OkNone", "Err"}, k \in {<<>>}}
                  \cup {[must_hold |-> m, sel |-> "OkSome", kids |-> k] :
                           m \in BOOLEAN, k \in KidChoices}]

\* the answer the oracle gives to the call on obligation `po`
OracleAnswer(oracle, po, res) ==
    LET o == oracle[po.obligation.predicate.name]
    IN [must_hold |-> o.must_hold, sel |-> o.sel,
        nested |-> [k \in 1..Len(o.kids) |->
                      MkObligation(resolve_vars_if_possible(MkPred(o.kids[k]), res),
                                   po.obligation.recursion_depth + 1)],
        region |-> "none", proj |-> NoProjAnswer]

\* the pass after the node at its index was processed with outcome `r`
AfterNode(st, r) ==
    [nodes |-> r.nodes,
     index |-> NextPending(r.nodes, st.index + 1, st.limit),
     limit |-> st.limit,
     stalled |-> st.stalled /\ ~r.progress,
     fatal |-> r.fatal]

RECURSIVE RunSelect(_, _, _)
\* select with the nodes of each pass processed in index order, run to its
\* fixpoint (or to a fatal cycle) from the state `st`
RunSelect(st, oracle, res) ==
    IF st.fatal # <<>> THEN st
    ELSE IF st.index > st.limit
    THEN IF st.stalled THEN st
         ELSE RunSelect([st EXCEPT !.index = NextPending(st.nodes, 1, Len(st.nodes)),
                                   !.limit = Len(st.nodes), !.stalled = TRUE],
                        oracle, res)
    ELSE RunSelect(
             AfterNode(st,
                 ProcessNode(st.nodes, res, st.index,
                     OracleAnswer(oracle, st.nodes[st.index].obligation, res))),
             oracle, res)

\* the run of select in index order on the forest `ns`
InOrder(ns, oracle, res) ==
    RunSelect([nodes |-> ns, index |-> NextPending(ns, 1, Len(ns)),
               limit |-> Len(ns), stalled |-> TRUE, fatal |-> <<>>], oracle, res)

NoOrder == [fixed |-> FALSE, oracle |-> <<>>, done |-> {}, roots |-> <<>>]

OInit == order = NoOrder

\* the answers of the capabilities are fixed for the run
order_fix ==
    /\ ~order.fixed
    /\ pc = "idle" /\ nodes = <<>>
    /\ \E o \in Oracles : order' = [order EXCEPT !.fixed = TRUE, !.oracle = o]
    /\ UNCHANGED <<fvars, cvars, pvars, nreq>>

\* register_predicate_obligation before the run
order_register ==
    /\ order.fixed
    /\ pc = "idle" /\ calls = 0
    /\ Len(nodes) < MaxOrderRoots
    /\ \E n \in PredNames :
         nodes' = register_obligation_at(nodes,
                     [obligation |-> MkObligation(
                                        resolve_vars_if_possible(MkPred(n), resolved), 0),
                      stalled_on |-> <<>>], 0)
    /\ UNCHANGED <<resolved, pc, mode, index, limit, stalled, passErrors,
                   errors, outcomes, result, fatal, last, blocked, calls>>
    /\ UNCHANGED <<cvars, pvars, nreq, order>>

\* select starts its first pass on the registered obligations
order_select_call ==
    /\ order.fixed
    /\ pc = "idle"
    /\ calls < MaxOrderCalls
    /\ calls' = calls + 1
    /\ \E m \in {"select_where_possible", "select_all_or_error"} : mode' = m
    /\ pc' = "pass"
    /\ index' = NextPending(nodes, 1, Len(nodes))
    /\ limit' = Len(nodes)
    /\ stalled' = TRUE
    /\ passErrors' = <<>>
    /\ errors' = <<>>
    /\ outcomes' = <<>>
    /\ result' = NoResult
    /\ last' = NoCall
    /\ blocked' = FALSE
    /\ order' = [order EXCEPT !.roots = nodes, !.done = {}]
    /\ UNCHANGED <<nodes, resolved, fatal>>
    /\ UNCHANGED <<cvars, pvars, nreq>>

\* the pending nodes of the running pass that it has not processed yet
Eligible(ns, upto, pass, done) ==
    {i \in 1..upto : ns[i].state = "Pending" /\ <<pass, i>> \notin done}

\* process_obligations, after node i of the pass was processed with
\* outcome `r`
process_any_result(i, r, done1) ==
    /\ nodes' = r.nodes
    /\ stalled' = (stalled /\ ~r.progress)
    /\ passErrors' = passErrors \o r.errors
    /\ fatal' = r.fatal
    /\ pc' = IF r.fatal # <<>> THEN "aborted" ELSE pc
    /\ order' = [order EXCEPT !.done = done1]
    /\ index' = IF Eligible(r.nodes, limit, Len(outcomes), done1) = {}
                THEN limit + 1 ELSE index

\* process_obligations: the processor is invoked on some pending node of
\* the pass
process_any ==
    /\ order.fixed
    /\ pc = "pass"
    /\ \E i \in Eligible(nodes, limit, Len(outcomes), order.done) :
         process_any_result(i,
             ProcessNode(nodes, resolved, i,
                         OracleAnswer(order.oracle, nodes[i].obligation, resolved)),
             order.done \cup {<<Len(outcomes), i>>})
    /\ UNCHANGED <<resolved, mode, limit, errors, outcomes, result, last,
                   blocked, calls>>
    /\ UNCHANGED <<cvars, pvars, nreq>>

Init == FInit /\ CInit /\ PInit /\ NInit /\ OInit

Next ==
    \/ register_predicate_obligation
    \/ infer_progress
    \/ select_call
    \/ process_step
    \/ select_loop
    \/ select_where_possible_return
    \/ select_all_or_error_return

Spec == Init /\ [][Next]_vars

KNext ==
    \/ register_kind_obligation
    \/ infer_progress
    \/ select_call
    \/ process_step
    \/ select_loop
    \/ select_where_possible_return
    \/ select_all_or_error_return

SpecKinds == Init /\ [][KNext]_vars

DNext ==
    \/ register_direct_obligation
    \/ infer_progress
    \/ select_call
    \/ process_step
    \/ select_loop
    \/ select_where_possible_return
    \/ select_all_or_error_return

SpecDirect == Init /\ [][DNext]_vars

ONext ==
    \/ order_fix
    \/ order_register
    \/ order_select_call
    \/ process_any
    \/ select_loop
    \/ select_where_possible_return
    \/ select_all_or_error_return

SpecOrder == Init /\ [][ONext]_vars

NNext ==
    \/ normalize_with_depth
    \/ normalize_infer_progress

SpecNormalize == Init /\ [][NNext]_vars

CNext ==
    \/ normalize_request
    \/ normalize_return
    \/ cache_infer_progress

SpecCache == Init /\ [][CNext]_vars

PNext ==
    \/ project_type_call
    \/ assemble_candidates_from_param_env
    \/ assemble_candidates_from_trait_def
    \/ assemble_candidates_from_impls
    \/ project_type_return

SpecProject == Init /\ [][PNext]_vars

\* projection obligations processed in snapshots, between and within
\* normalizations
UnifyNext ==
    \/ poly_project_and_unify_type_call
    \/ poly_project_and_unify_type_return

SpecUnify == Init /\ [][UnifyNext]_vars

\* the operations of a candidate set in any order
PushNext ==
    \/ candidate_set_push
    \/ candidate_set_mark_ambiguous
    \/ candidate_set_mark_error
    \/ candidate_set_new

SpecPush == Init /\ [][PushNext]_vars

\* project_type's confirmation of an impl candidate, on its own
ConfirmNext == confirm_impl_candidate_call

SpecConfirm == Init /\ [][ConfirmNext]_vars

(* ------------------------- claims: fulfillment ------------------------- *)

RECURSIVE AllPassErrors(_)
\* the errors of a sequence of pass outcomes, as fulfillment errors, in order
AllPassErrors(os) ==
    IF os = <<>> THEN <<>>
    ELSE [k \in 1..Len(Head(os).errors) |-> to_fulfillment_error(Head(os).errors[k])]
         \o AllPassErrors(Tail(os))

\* the ambiguity error to_errors makes of pending node i
AmbiguityOf(ns, i) ==
    to_fulfillment_error([error |-> "CodeAmbiguity", backtrace |-> Backtrace(ns, i),
                          node |-> i])

\* the elements of a sequence
Range(seq) == {seq[k] : k \in 1..Len(seq)}

\* what the last process_obligation call was given
Given == last.before

\* what process_obligations left when it had handled the call's result
Left == last.after

\* the node of the last call, as the call was given it and as it was left
GivenNode == Given.nodes[last.node]
LeftNode == Left.nodes[last.node]

\* the processor was last invoked on a predicate of `kind`
Invoked(kind) ==
    /\ last.node # 0
    /\ GivenNode.obligation.obligation.predicate.kind = kind

\* the error the last call reported for its node
LeftError == Left.passErrors[Len(Left.passErrors)].error

\* C1: select_where_possible runs passes until the first one that reports
\* stalled, also after passes that reported errors, and returns the errors
\* of every pass of the run; Ok(()) iff no pass reported an error.
C1_SelectRunsToStall ==
    result.op = "select_where_possible" =>
        /\ Len(outcomes) >= 1
        /\ outcomes[Len(outcomes)].stalled
        /\ \A k \in 1..(Len(outcomes) - 1) : ~outcomes[k].stalled
        /\ result.errors = AllPassErrors(outcomes)
        /\ result.ok <=> \A k \in 1..Len(outcomes) : outcomes[k].errors = <<>>

\* C1 witness: a run whose first two passes both reported errors
C1_Witness ==
    /\ result.op = "select_where_possible"
    /\ Len(outcomes) >= 3
    /\ outcomes[1].errors # <<>>
    /\ outcomes[2].errors # <<>>
    /\ Len(result.errors) >= 2

\* C2 (as claimed): select_all_or_error returns every obligation pending at
\* the stall as an ambiguity error together with all true errors of the run,
\* also when the run produced a true error.
C2_Original ==
    [][select_all_or_error_return =>
        /\ \A k \in 1..Len(errors) : errors[k] \in Range(result'.errors)
        /\ \A i \in Range(PendingNodes(nodes)) :
              AmbiguityOf(nodes, i) \in Range(result'.errors)]_fvars

\* C2 (amended): if the select run produced a true error, select_all_or_error
\* returns exactly those errors and leaves the pending obligations in the
\* forest, unreported; if it produced none, it returns one ambiguity error
\* per obligation pending at the stall and no obligation stays pending.
C2_AmbiguityOnlyWithoutErrors ==
    [][select_all_or_error_return =>
        IF AllPassErrors(outcomes) # <<>>
        THEN /\ result'.errors = AllPassErrors(outcomes)
             /\ ~result'.ok
             /\ nodes' = nodes
        ELSE /\ result'.errors =
                   [k \in 1..Len(PendingNodes(nodes)) |->
                       AmbiguityOf(nodes, PendingNodes(nodes)[k])]
             /\ PendingNodes(nodes') = <<>>]_fvars

\* C2 witness: select_all_or_error returned true errors only while an
\* obligation that was processed and blocked is still pending
C2_Witness ==
    /\ result.op = "select_all_or_error"
    /\ result.errors # <<>>
    /\ \A k \in 1..Len(result.errors) : result.errors[k].code # "CodeAmbiguity"
    /\ \E i \in 1..Len(nodes) :
          nodes[i].state = "Pending" /\ nodes[i].obligation.stalled_on # <<>>

\* C3: select_all_or_error returns Ok(()) iff the select run produced no
\* error and no obligation was pending at the stall; after Ok(()) no
\* obligation is pending.
C3_OkMeansNothingPending ==
    [][select_all_or_error_return =>
        /\ result'.ok <=> (/\ \A k \in 1..Len(outcomes) : outcomes[k].errors = <<>>
                           /\ PendingNodes(nodes) = <<>>)
        /\ result'.ok => pending_obligations(nodes') = <<>>]_fvars

\* C3 witness: Ok(()) with a forest that resolved registered obligations
C3_Witness ==
    /\ result.op = "select_all_or_error"
    /\ result.ok
    /\ Len(nodes) >= 2
    /\ \A i \in 1..Len(nodes) : nodes[i].state = "Success"

\* C4: a run in which no obligation is blocked and spawn depth is at most
\* MaxDepth takes at most MaxDepth + 2 passes, and when select stops every
\* obligation is resolved to Success or Error.
C4_PassesBoundedByDepth ==
    (pc \in {"pass", "stalled"} /\ ~blocked) =>
        /\ Len(outcomes) <= MaxDepth + 2
        /\ pc = "stalled" =>
              \A i \in 1..Len(nodes) : nodes[i].state \in {"Success", "Error"}

\* C4 witness: an unblocked run of a chain of depth MaxDepth that needed
\* MaxDepth + 2 passes
C4_Witness ==
    /\ pc = "stalled"
    /\ ~blocked
    /\ Len(outcomes) = MaxDepth + 2
    /\ \E i \in 1..Len(nodes) : nodes[i].obligation.obligation.recursion_depth = MaxDepth

\* the predicates of a cycle
CyclePreds(cyc) == [k \in 1..Len(cyc) |-> cyc[k].obligation.predicate]

\* C5: a detected cycle that is a co-inductive match is accepted without any
\* error; any other cycle is reported at once as a fatal overflow naming the
\* whole cycle, nothing is added to the error batch, and the run goes on no
\* further.
C5_CycleAcceptedOrFatal ==
    [][/\ pc # "aborted"
       /\ (process_step /\ last'.cycles # <<>>) =>
            LET cs == last'.cycles
                bad == {k \in 1..Len(cs) : ~coinductive_match(CyclePreds(cs[k]))}
            IN /\ passErrors' = passErrors
               /\ errors' = errors
               /\ IF bad = {}
                  THEN /\ fatal' = <<>>
                       /\ pc' = "pass"
                       /\ Len(nodes') = Len(nodes) + last'.spawned - Len(cs)
                  ELSE /\ bad = {Len(cs)}
                       /\ fatal' = [k \in 1..Len(cs[Len(cs)]) |->
                                       cs[Len(cs)][k].obligation]
                       /\ pc' = "aborted"]_fvars

\* C5 witness: a cycle of two obligations that is no co-inductive match was
\* reported as fatal
C5_Witness ==
    /\ pc = "aborted"
    /\ Len(fatal) >= 2
    /\ last.cycles # <<>>

RECURSIVE Descendants(_, _)
\* the nodes transitively spawned by node i
Descendants(ns, i) ==
    ChildrenOf(ns, i) \cup UNION {Descendants(ns, j) : j \in ChildrenOf(ns, i)}

\* C6: a node is Success only if every obligation it transitively spawned
\* is Success; a node whose processing spawned children that are pending is
\* not Success.
C6_SuccessOnlyWithChildren ==
    /\ \A i \in 1..Len(nodes) :
          nodes[i].state = "Success" =>
              \A j \in Descendants(nodes, i) : nodes[j].state = "Success"
    /\ (last.node # 0 /\ last.result = "Changed" /\ Left.fatal = <<>>
                      /\ last.spawned > Len(last.cycles)) =>
          /\ LeftNode.state = "Waiting"
          /\ Cardinality(ChildrenOf(Left.nodes, last.node)) =
                 last.spawned - Len(last.cycles)
          /\ \A j \in ChildrenOf(Left.nodes, last.node) :
                Left.nodes[j].state = "Pending"

\* C6 witness: a node that became Success after its children did
C6_Witness ==
    \E i \in 1..Len(nodes) :
        /\ nodes[i].state = "Success"
        /\ Cardinality(ChildrenOf(nodes, i)) = 2

\* C7: when the processor returns Error for a node, the node and its
\* ancestors become Error; an Error node is never changed or processed
\* again, and the error is reported exactly once.
C7_ErrorIsTerminal ==
    [][/\ (process_step /\ last'.result = "Error") =>
            /\ \A j \in Range(Chain(nodes, index)) : nodes'[j].state = "Error"
            /\ Len(passErrors') = Len(passErrors) + 1
       /\ (process_step /\ last'.result # "Error") => passErrors' = passErrors
       /\ select_loop => Len(errors') = Len(errors) + Len(passErrors)
       /\ \A i \in 1..Len(nodes) :
            nodes[i].state = "Error" =>
                /\ nodes'[i] = nodes[i]
                /\ ~(process_step /\ last'.node = i)]_fvars

\* C7 witness: a later pass ran after an error failed a node and its parent
C7_Witness ==
    /\ pc = "pass"
    /\ Len(outcomes) >= 2
    /\ \E k \in 1..Len(outcomes) : \E j \in 1..Len(outcomes[k].errors) :
          Len(outcomes[k].errors[j].backtrace) >= 2
    /\ \E i \in 1..Len(nodes) : nodes[i].state = "Pending"

C9_StallCheck ==
    last.node # 0 =>
        LET po == GivenNode.obligation
            changed == {v \in Range(po.stalled_on) : v \in Given.resolved}
        IN /\ last.attempted <=> (Len(po.stalled_on) = 0 \/ changed # {})
           /\ ~last.attempted =>
                 /\ last.result = "Unchanged"
                 /\ LeftNode.obligation = po

\* C9 witness: an obligation stalled on several variables, none of which
\* changed, was looked at and not attempted
C9_Witness ==
    /\ last.node # 0
    /\ ~last.attempted
    /\ Len(nodes[last.node].obligation.stalled_on) >= 2

(* ----------------------- claims: projection cache ---------------------- *)

\* the cache state the last call found: every step that touches the cache
\* is a call, and the call records what it found
Was == creq.found

\* the last call was a request for key k: a lookup, not a return
Requested(k) == creq.key = k /\ creq.hit \notin {"none", "computed"}

RequestFor(k) == creq'.key = k /\ normalize_request

ActiveKeys == {cstack[i].key : i \in 1..Len(cstack)}

\* C12: at most one computation per key is active, and a request for a key
\* whose entry is InProgress (one made from within that computation
\* included) does not enter project_type: no call is started and the key's
\* assembly count stays.
C12_OneComputationPerKey ==
    /\ \A i, j \in 1..Len(cstack) : cstack[i].key = cstack[j].key => i = j
    /\ \A k \in Keys : cache[k].kind = "InProgress" <=> k \in ActiveKeys
    /\ \A k \in Keys :
          Was.cache[k].kind = "InProgress" /\ Requested(k) =>
             /\ cstack = Was.cstack
             /\ assembled = Was.assembled
             /\ cache = Was.cache
             /\ creq.ret = "ErrInProgress"

\* C12 witness: while a key is being computed, a request for the same key
\* made from within the computation was answered in-progress
C12_Witness ==
    /\ cstack # <<>>
    /\ creq.key = cstack[Len(cstack)].key
    /\ creq.hit = "InProgress"
    /\ creq.ret = "ErrInProgress"
    /\ assembled[creq.key] = 1

RepeatsLastCall(k) ==
    /\ creq.key = k
    /\ creq.ret # "none"
    /\ creq.resolved = resolved
    /\ creq'.via = creq.via
    /\ creq'.depth = creq.depth
    /\ RequestFor(k)

C17_StoredObligationsUntilResolved ==
    \A k \in Keys :
       Was.cache[k].kind = "NormalizedTy" =>
          /\ Was.cache[k].obligations = <<>> => cache[k] = Was.cache[k]
          /\ Requested(k) =>
                IF Was.cache[k].value.infer \ creq.resolved # {}
                THEN /\ SubSeq(creq.obligations, 1, Len(creq.obligations) - 1)
                          = Was.cache[k].obligations
                     /\ cache = Was.cache
                ELSE /\ Len(creq.obligations) = 1
                     /\ cache[k] = [Was.cache[k] EXCEPT !.obligations = <<>>]

\* C17 witness: an entry with stored obligations was reused after its value
\* became resolved: the request got one obligation and the entry holds none
C17_Witness ==
    /\ creq.hit = "NormalizedTy"
    /\ creq.stored # <<>>
    /\ Len(creq.obligations) = 1
    /\ cache[creq.key].kind = "NormalizedTy"
    /\ cache[creq.key].obligations = <<>>

(* ----------------------- claims: project_type -------------------------- *)

\* the candidates of source src pushed by the running project_type call
Pushed(src) ==
    {trail[i].candidate : i \in {j \in 1..Len(trail) :
        trail[j].op = "push" /\ trail[j].candidate.source = src}}

\* assembly found exactly one ParamEnv candidate and one Select candidate
\* and nothing else touched the candidate set
OneParamEnvOneSelect ==
    /\ Cardinality(Pushed("ParamEnv")) = 1
    /\ Cardinality(Pushed("Select")) = 1
    /\ Pushed("TraitDef") = {}
    /\ \A i \in 1..Len(trail) : trail[i].op = "push"

\* C18: when assembly found one ParamEnv candidate and one Select candidate,
\* the set after assembly is Single(the ParamEnv candidate) and project_type
\* returns Progress confirmed from it, never TooManyCandidates.
C18_ParamEnvDominates ==
    OneParamEnvOneSelect =>
       LET pe == CHOOSE c \in Pushed("ParamEnv") : TRUE
       IN /\ candidates = Single(pe)
          /\ pstage = "done" => projected = confirm_candidate(pe)

\* C18 witness: project_type returned after a ParamEnv and a Select
\* candidate were found; the Select candidate was pushed and discarded
C18_Witness ==
    /\ pstage = "done"
    /\ OneParamEnvOneSelect
    /\ trail[Len(trail)].candidate.source = "Select"
    /\ trail[Len(trail)].before.tag = "Single"
    /\ projected.tag = "Progress"
    /\ projected.candidate.source = "ParamEnv"

C20_OutcomeDecidedBySet ==
    pstage = "done" =>
       IF ~(pobligation.recursion_depth <= RecursionLimit)
       THEN projected.tag = "TraitSelectionError"
       ELSE /\ projected.tag = "NoProgress" <=>
                 /\ candidates.tag = "None"
                 /\ trail = <<>>
                 /\ ~pobligation.references_error
            /\ candidates.tag = "None" /\ ~pobligation.references_error
                 <=> trail = <<>> /\ ~pobligation.references_error
            /\ projected.tag = "TooManyCandidates" <=> candidates.tag = "Ambiguous"
            /\ projected.tag = "TraitSelectionError" <=> candidates.tag = "Error"
            /\ candidates.tag = "Single" =>
                  /\ projected.tag = "Progress"
                  /\ projected.candidate = candidates.candidate

\* C20 witness: a candidate was found, selection then failed, and
\* project_type returned the trait-selection error
C20_Witness ==
    /\ pstage = "done"
    /\ Len(trail) >= 2
    /\ trail[1].op = "push"
    /\ trail[Len(trail)].op = "mark_error"
    /\ candidates.tag = "Error"
    /\ projected.tag = "TraitSelectionError"

(* ---------------- claims on specializable defaults (C26) ---------------- *)

\* selection resolved to a user impl whose associated type is a
\* specializable default that may not be revealed
DefaultNotRevealed ==
    /\ impl_source.sel = "Some"
    /\ impl_source.source = "ImplSourceUserDefined"
    /\ ~impl_source.is_final
    /\ ~(pobligation.reveal = "All" /\ ~impl_source.still_further_specializable)

\* C26 as stated: when a specializable default is not eligible and no other
\* source found anything, the projection yields ambiguity.
C26_Original ==
    pstage = "done" /\ DefaultNotRevealed /\ trail = <<>> =>
       projected.tag = "TooManyCandidates"

\* C26: a final definition of a user impl is always pushed as a Select
\* candidate; a specializable default is pushed exactly when the reveal mode
\* is All and the trait-ref is not further specializable; otherwise nothing
\* is pushed or marked by the impls step, project_type never returns a type
\* confirmed from the default, and with no other candidate it returns
\* NoProgress.
C26_DefaultEligibility ==
    pstage \in {"match", "done"} /\ impl_source.sel = "Some"
          /\ impl_source.source = "ImplSourceUserDefined" =>
       LET select == MkCandidate("Select", impl_source.id)
       IN /\ impl_source.is_final => select \in Pushed("Select")
          /\ ~impl_source.is_final =>
                (select \in Pushed("Select") <=> ~DefaultNotRevealed)
          /\ DefaultNotRevealed =>
                /\ Pushed("Select") = {}
                /\ \A i \in 1..Len(trail) : trail[i].candidate.source # "none"
                                              \/ trail[i].op = "mark_ambiguous"
                /\ pstage = "done" =>
                      /\ projected.candidate.source # "Select"
                      /\ trail = <<>> => projected = NoProgress

\* C26 witness: project_type returned NoProgress for a specializable
\* default under user-facing reveal, nothing else having been found
C26_Witness ==
    /\ pstage = "done"
    /\ DefaultNotRevealed
    /\ pobligation.reveal = "UserFacing"
    /\ ~impl_source.still_further_specializable
    /\ trail = <<>>
    /\ projected = NoProgress

(* --------------- claims on the processor's arms (C27..) ----------------- *)

\* the last process_obligation call attempted a predicate of `kind`
Attempts(kind) == Invoked(kind) /\ last.attempted

\* C27: an attempted Trait obligation that is global and must hold is
\* Changed with no nested obligations and selection is not invoked;
\* otherwise selection is invoked and Ok(Some) gives Changed with the
\* nested obligations as children, Ok(None) gives Unchanged with stalled_on
\* the unresolved inference variables of the resolved trait-ref, and Err
\* gives Error.
C27_TraitArm ==
    Attempts("Trait") =>
       LET how == last.how
           pred1 == resolve_vars_if_possible(
                        GivenNode.obligation.obligation.predicate, Given.resolved)
       IN /\ how.must_hold =>
                /\ is_global(pred1)
                /\ how.sel = "none"
                /\ last.result = "Changed"
                /\ last.spawned = 0
                /\ Len(Left.nodes) = Len(Given.nodes)
          /\ ~how.must_hold => how.sel \in {"OkSome", "OkNone", "Err"}
          /\ how.sel = "OkSome" =>
                /\ last.result = "Changed"
                /\ Left.fatal = <<>> =>
                      Len(Left.nodes) =
                         Len(Given.nodes) + last.spawned - Len(last.cycles)
          /\ how.sel = "OkNone" =>
                /\ last.result = "Unchanged"
                /\ LeftNode.state = "Pending"
                /\ LeftNode.obligation.stalled_on = SetToSeq(pred1.infer)
                /\ Len(Left.nodes) = Len(Given.nodes)
          /\ how.sel = "Err" =>
                /\ last.result = "Error"
                /\ LeftNode.state = "Error"
                /\ LeftError = "CodeSelectionError"

\* C27 witness: a global Trait obligation was resolved on the fast path
\* of a pass that also selected another obligation
C27_Witness ==
    /\ last.node # 0
    /\ last.how.must_hold
    /\ last.result = "Changed"
    /\ nodes[last.node].state = "Success"
    /\ \E j \in 1..Len(nodes) :
          j # last.node /\ Len(nodes[j].obligation.stalled_on) > 0

\* the last process_obligation call was on an outlives obligation
OutlivesStep == Invoked("TypeOutlives") \/ Invoked("RegionOutlives")

\* C29: an outlives obligation is resolved by the call that attempts it and
\* is never left pending: TypeOutlives without bound variables is Changed
\* with no children; a higher-ranked one whose type mentions no bound
\* variable is taken as `T: 'static` and Changed; one whose type has bound
\* variables is Error; RegionOutlives is Changed or Error as the region
\* capability answers.
C29_OutlivesResolved ==
    OutlivesStep =>
       LET pred == GivenNode.obligation.obligation.predicate
           how == last.how
       IN /\ last.attempted
          /\ last.result \in {"Changed", "Error"}
          /\ last.spawned = 0
          /\ Len(Left.nodes) = Len(Given.nodes)
          /\ LeftNode.state \in {"Success", "Error"}
          /\ LeftNode.obligation.stalled_on = <<>>
          /\ pred.kind = "TypeOutlives" =>
                /\ pred.binder = "no_bound_vars" =>
                      last.result = "Changed" /\ how.region = "r_b"
                /\ pred.binder = "bound_region" =>
                      last.result = "Changed" /\ how.region = "static"
                /\ pred.binder = "bound_type" =>
                      /\ last.result = "Error"
                      /\ LeftError = "CodeSelectionError"
          /\ pred.kind = "RegionOutlives" =>
                /\ how.region = "Ok" => last.result = "Changed"
                /\ how.region = "Err" =>
                      /\ last.result = "Error"
                      /\ LeftError = "CodeSelectionError"
                /\ how.region \in {"Ok", "Err"}

\* C29 witness: a higher-ranked TypeOutlives obligation whose type mentions
\* no bound variable was resolved as `T: 'static`
C29_Witness ==
    /\ last.node # 0
    /\ nodes[last.node].obligation.obligation.predicate.kind = "TypeOutlives"
    /\ nodes[last.node].obligation.obligation.predicate.binder = "bound_region"
    /\ last.result = "Changed"
    /\ last.how.region = "static"
    /\ nodes[last.node].state = "Success"

\* the last call projected `<T as Trait>::Item` with T an unresolved
\* inference variable and no matching bounds, and project_type ran (no
\* cached entry)
ProjectsUnresolvedSelfTy ==
    /\ Attempts("Projection")
    /\ last.how.self_ty = "Infer"
    /\ last.how.bounds = 0
    /\ last.how.projected # "cached"

\* C21 as stated: such a projection yields NoProgress (unless selection
\* fails) and the obligation stays pending, stalled on T.
C21_Original ==
    ProjectsUnresolvedSelfTy /\ last.how.projected # "TraitSelectionError" =>
       /\ last.how.projected = "NoProgress"
       /\ LeftNode.state = "Pending"
       /\ \E k \in 1..Len(LeftNode.obligation.stalled_on) :
             LeftNode.obligation.stalled_on[k] = 1

\* C21: projecting `<T as Trait>::Item` with T an unresolved inference
\* variable and no bounds never yields NoProgress: project_type yields
\* ambiguity (TooManyCandidates), or a trait-selection error when selection
\* fails or the recursion limit is exceeded; on ambiguity the call is
\* Unchanged, the obligation stays pending, and stalled_on contains T's id.
C21_UnresolvedSelfTy ==
    ProjectsUnresolvedSelfTy =>
       LET how == last.how
       IN /\ how.projected \in {"TooManyCandidates", "TraitSelectionError"}
          /\ how.projected = "TooManyCandidates" =>
                /\ how.ret = "OkNone"
                /\ last.result = "Unchanged"
                /\ LeftNode.state = "Pending"
                /\ Len(Left.nodes) = Len(Given.nodes)
                /\ \E k \in 1..Len(LeftNode.obligation.stalled_on) :
                      LeftNode.obligation.stalled_on[k] = 1

\* C21 witness: such a projection was attempted, came out ambiguous, and
\* its obligation is pending and stalled on T
C21_Witness ==
    /\ last.node # 0
    /\ nodes[last.node].obligation.obligation.predicate.kind = "Projection"
    /\ last.attempted
    /\ last.how.self_ty = "Infer"
    /\ last.how.bounds = 0
    /\ last.how.projected = "TooManyCandidates"
    /\ last.result = "Unchanged"
    /\ nodes[last.node].state = "Pending"
    /\ nodes[last.node].obligation.stalled_on = <<1, 2>>

\* the last call attempted a projection whose key is being computed: a
\* recursive re-entry
ReentersProjection ==
    /\ Attempts("Projection")
    /\ last.how.ret = "ErrInProgress"

\* C28 as stated, the last part: after a recursive re-entry the obligation
\* is not lost: the run goes on and a pending node holds the obligation.
C28_Original ==
    ReentersProjection =>
       /\ Left.pc # "aborted"
       /\ \E j \in 1..Len(Left.nodes) :
             /\ Left.nodes[j].state = "Pending"
             /\ Left.nodes[j].obligation.obligation = LeftNode.obligation.obligation

\* C28: an attempted Projection obligation: when normalization succeeds and
\* the types unify the call is Changed with the nested obligations as
\* children; on ambiguity it is Unchanged, pending, with stalled_on the
\* unresolved variables of the trait-ref; on a type mismatch it is Error
\* with a projection error; on a recursive re-entry it is Changed with one
\* child, a copy of the same obligation, which closes a cycle on the
\* obligation itself: the cycle is offered to process_backedge and, a
\* projection not being co-inductive, reported as a fatal overflow; no node
\* is added and the run is aborted.
C28_ProjectionArm ==
    Attempts("Projection") =>
       LET how == last.how
           pred1 == resolve_vars_if_possible(
                        GivenNode.obligation.obligation.predicate, Given.resolved)
       IN /\ how.ret \in {"OkSome", "OkNone", "ErrInProgress"}
          /\ how.ret = "OkSome" /\ how.eq = "Ok" =>
                /\ last.result = "Changed"
                /\ Left.fatal = <<>> =>
                      Len(Left.nodes) =
                         Len(Given.nodes) + last.spawned - Len(last.cycles)
          /\ how.ret = "OkSome" /\ how.eq # "Ok" =>
                /\ last.result = "Error"
                /\ LeftNode.state = "Error"
                /\ LeftError = "CodeProjectionError"
          /\ how.ret = "OkNone" =>
                /\ last.result = "Unchanged"
                /\ LeftNode.state = "Pending"
                /\ LeftNode.obligation.stalled_on = SetToSeq(pred1.infer)
                /\ Len(Left.nodes) = Len(Given.nodes)
          /\ how.ret = "ErrInProgress" =>
                /\ last.result = "Changed"
                /\ last.spawned = 1
                /\ last.cycles = <<(<<LeftNode.obligation>>)>>
                /\ LeftNode.obligation.obligation
                      = MkObligation(pred1,
                                     GivenNode.obligation.obligation.recursion_depth)
                /\ Left.fatal = <<LeftNode.obligation.obligation>>
                /\ Left.pc = "aborted"
                /\ Len(Left.nodes) = Len(Given.nodes)

\* C28 witness: a projection was re-entered, its copy closed a cycle and
\* the overflow was reported
C28_Witness ==
    /\ last.node # 0
    /\ nodes[last.node].obligation.obligation.predicate.kind = "Projection"
    /\ last.how.ret = "ErrInProgress"
    /\ last.result = "Changed"
    /\ Len(last.cycles) = 1
    /\ fatal # <<>>
    /\ pc = "aborted"

(* ------------------- claims on the normalizer (C22..C25) ---------------- *)

\* a call of normalize_projection_type returns in this step
NormalizeReturns ==
    /\ creq'.via = "normalize"
    /\ creq'.ret # "none"
    /\ (normalize_request \/ normalize_return)

\* the obligations `projection == $X` among `obs`, $X made after `tv`
\* type variables
DeferredIn(obs, p, tv) ==
    {k \in 1..Len(obs) : /\ obs[k].kind = "Projection"
                         /\ obs[k].proj = p
                         /\ obs[k].ty.id = "var"
                         /\ obs[k].ty.n > tv}

RECURSIVE Opaques(_, _)
\* the opaque definitions occurring in `ty` from its k-th component on, in
\* order, after those of `ty` itself when k = 0
Opaques(ty, k) ==
    IF k = 0
    THEN (IF ty.ctor = "Opaque" THEN <<ty.n>> ELSE <<>>) \o Opaques(ty, 1)
    ELSE IF k > Len(ty.args) THEN <<>>
    ELSE Opaques(ty.args[k], 0) \o Opaques(ty, k + 1)

RECURSIVE Projections(_, _)
\* the projections without escaping bound variables occurring in `ty`
Projections(ty, k) ==
    IF k = 0
    THEN (IF ty.ctor = "Projection" /\ ~ty.bound THEN <<ty.n>> ELSE <<>>)
         \o Projections(ty, 1)
    ELSE IF k > Len(ty.args) THEN <<>>
    ELSE Projections(ty.args[k], 0) \o Projections(ty, k + 1)

\* C23 as stated: a value without projections and opaque types is returned
\* unchanged, with no obligations, the cache and assembly untouched.
C23_Original ==
    nreq.calls > 0 /\ ~has_projections(nreq.value) =>
       /\ nreq.out = nreq.value
       /\ nreq.obligations = <<>>
       /\ nreq.lookups = 0 /\ nreq.assembled = 0
       /\ ~nreq.touched

\* C23: normalizing a value that, with the known inference variables
\* resolved, contains no projection or opaque type returns the resolved
\* value (the value itself when it mentions no known variable), appends no
\* obligation, makes no type variable, and neither looks up or writes the
\* projection cache nor runs project_type.
C23_FastPath ==
    nreq.calls > 0 /\ ~has_projections(resolve_ty(nreq.value, nreq.resolved)) =>
       /\ nreq.out = resolve_ty(nreq.value, nreq.resolved)
       /\ resolve_ty(nreq.value, nreq.resolved) = nreq.value => nreq.out = nreq.value
       /\ nreq.obligations = <<>>
       /\ nreq.lookups = 0 /\ nreq.assembled = 0
       /\ ~nreq.touched
       /\ nreq.made = 0

\* C23 witness: a value without projections that mentions a known
\* inference variable was normalized after a call that filled the cache
C23_Witness ==
    /\ nreq.calls = 2
    /\ nreq.value = VecTy(InferTy(1))
    /\ 1 \in nreq.resolved
    /\ nreq.out = VecTy(I32)
    /\ nreq.lookups = 0
    /\ \E k \in Keys : cache[k].kind # "Absent"

\* C24: an opaque type is replaced by its concrete type only under
\* Reveal::All; under Reveal::UserFacing no opaque type is unfolded, every
\* opaque type of the value is in the result, and its components have been
\* folded (every projection without escaping bound variables was handed to
\* normalize_projection_type). Under Reveal::All no opaque type is left
\* unless an overflow was reported.
C24_OpaqueOnlyRevealAll ==
    nreq.calls > 0 =>
       LET v == resolve_ty(nreq.value, nreq.resolved)
       IN /\ nreq.unfolded # <<>> => nreq.reveal = "All"
          /\ nreq.reveal = "UserFacing" =>
                /\ nreq.unfolded = <<>>
                /\ ~nreq.overflow
                /\ Opaques(nreq.out, 0) = Opaques(v, 0)
                /\ nreq.lookups = Len(Projections(v, 0))
                /\ v.ctor = "Opaque" => nreq.out.ctor = "Opaque" /\ nreq.out.n = v.n
          /\ nreq.reveal = "All" /\ ~nreq.overflow =>
                /\ Opaques(nreq.out, 0) = <<>>
                /\ Len(nreq.unfolded) >= Len(Opaques(v, 0))

\* C24 witness: under Reveal::UserFacing an opaque type with a projection
\* among its components came back with the component normalized
C24_Witness ==
    /\ nreq.calls > 0
    /\ nreq.reveal = "UserFacing"
    /\ nreq.value = OpaqueTy(1, <<ProjectionTree(1, FALSE)>>)
    /\ nreq.out = OpaqueTy(1, <<I32>>)
    /\ nreq.lookups = 1

\* C25: opaque types are unfolded only at depths within the recursion
\* limit, each nested unfolding one deeper than the one around it; an
\* opaque type met beyond the limit is reported as an overflow and not
\* unfolded; the self-referential opaque type is unfolded from the call's
\* depth up to the limit and then reported, so its normalization ends.
C25_OpaqueRecursionLimit ==
    nreq.calls > 0 =>
       LET u == nreq.unfolded
       IN /\ \A k \in 1..Len(u) : u[k] >= nreq.depth /\ u[k] <= RecursionLimit
          /\ \A k \in 1..(Len(u) - 1) : u[k + 1] <= u[k] + 1
          /\ nreq.overflow =>
                /\ nreq.reveal = "All"
                /\ IF u = <<>> THEN nreq.depth = RecursionLimit + 1
                   ELSE u[Len(u)] = RecursionLimit
          /\ nreq.reveal = "All" /\ nreq.value = OpaqueTy(2, <<>>) =>
                /\ nreq.overflow
                /\ u = [k \in 1..(RecursionLimit + 1 - nreq.depth) |->
                           nreq.depth + k - 1]

\* C25 witness: the self-referential opaque type was unfolded at depths 0
\* to the limit and the overflow reported
C25_Witness ==
    /\ nreq.calls > 0
    /\ nreq.reveal = "All"
    /\ nreq.value = OpaqueTy(2, <<>>)
    /\ nreq.depth = 0
    /\ Len(nreq.unfolded) = RecursionLimit + 1
    /\ nreq.overflow

(* --------------------------- C30: confluence --------------------------- *)

\* what became of node i: its obligation, its state, the predicate it
\* depends on and the root of its tree
FateOf(ns, i) ==
    [obligation |-> ns[i].obligation,
     state |-> ns[i].state,
     parent |-> IF ns[i].parent = 0 THEN 0
                ELSE ns[ns[i].parent].obligation.obligation.predicate.name,
     root |-> RootOf(ns, i)]

\* the fates of the nodes of a forest, each with the number of nodes having it
Fates(ns) ==
    {<<f, Cardinality({i \in 1..Len(ns) : FateOf(ns, i) = f})>> :
        f \in {FateOf(ns, i) : i \in 1..Len(ns)}}

LastStalledOn == nodes[last.node].obligation.stalled_on

\* the predicate of the node the processor was last invoked on
LastPred == nodes[last.node].obligation.obligation.predicate

\* the nodes a step adds start with an empty stalled_on
NewNodesUnstalled ==
    \A i \in (Len(nodes) + 1)..Len(nodes') : nodes'[i].obligation.stalled_on = <<>>

\* an invocation that attempted nothing was on a stalled node
FirstIsAttempt ==
    (last.node # 0 /\ ~last.attempted) => LastStalledOn # <<>>

\* the const-equate attempt that failed while one side was too generic
ConstEquateFailedGeneric ==
    /\ LastPred.kind = "ConstEquate"
    /\ last.result \in {"Error", "Bug"}
    /\ "TooGeneric" \in {last.how.chk.c1, last.how.chk.c2}

\* C31 as stated: after an attempt stalled_on is non-empty only if the
\* attempt ended Unchanged; new obligations start with an empty stalled_on
\* and so are attempted when first processed.
C31_Original ==
    [][/\ NewNodesUnstalled
       /\ FirstIsAttempt'
       /\ (last'.node # 0 /\ last'.attempted /\ LastStalledOn' # <<>>)
              => last'.result = "Unchanged"]_vars

\* C31, amended: after an attempt stalled_on is non-empty only if the
\* attempt ended Unchanged, or it was a const-equate attempt that failed
\* while one side was too generic (that side's variables were appended
\* before the pair was matched); every obligation registered by a caller or
\* spawned as a child starts with an empty stalled_on, so an invocation that
\* attempts nothing is on a node stalled by an earlier attempt.
C31_StalledOnClearedOnAttempt ==
    [][/\ NewNodesUnstalled
       /\ FirstIsAttempt'
       /\ (last'.node # 0 /\ last'.attempted /\ LastStalledOn' # <<>>)
              => (last'.result = "Unchanged" \/ ConstEquateFailedGeneric')]_vars

\* C31 witness: in a second select a const-equate obligation, stalled
\* before, was attempted again once a variable was known, and was blocked
\* again with stalled_on repopulated by the side that is still too generic
C31_Witness ==
    /\ calls = 2
    /\ last.node # 0 /\ last.attempted /\ last.result = "Unchanged"
    /\ LastPred.kind = "ConstEquate" /\ LastPred.c1 = {1}
    /\ 1 \in resolved
    /\ LastStalledOn = <<2>>

(* ------------------------- C38: const-equate --------------------------- *)

\* the predicate of the last call's node as the call left it
LeftPred == LeftNode.obligation.obligation.predicate

\* what the too-generic sides of the const-equate appended to stalled_on
GenericSidesVars ==
    evaluate_stalled_on(last.how.chk.c1, LeftPred.c1, LeftPred)
    \o evaluate_stalled_on(last.how.chk.c2, LeftPred.c2, LeftPred)

\* the first two cases of a const-equate attempt: both sides evaluate, or
\* a side reports an error
ConstEquateDecided ==
    LET a == last.how.chk.c1
        b == last.how.chk.c2
    IN /\ (a = "Ok" /\ b = "Ok" /\ last.how.chk.eq) =>
            (last.result = "Changed" /\ last.spawned = 0
             /\ Len(Left.nodes) = Len(Given.nodes))
       /\ (a = "Ok" /\ b = "Ok" /\ ~last.how.chk.eq) =>
            (last.result = "Error" /\ LeftError = "CodeConstEquateError")
       /\ "Reported" \in {a, b} =>
            (last.result = "Error"
             /\ LeftError = "CodeSelectionError(ConstEvalFailure)")

C39_DirectStalls ==
    /\ (Attempts("WellFormed") /\ last.how.chk.wf = "None") =>
          (last.result = "Unchanged" /\ LeftNode.obligation.stalled_on = <<1>>
           /\ LeftPred.infer = {1})
    /\ (Attempts("Subtype") /\ last.how.chk.sub = "None") =>
          (last.result = "Unchanged" /\ LeftNode.obligation.stalled_on = <<1, 2>>
           /\ LeftPred.infer = {1, 2})
    /\ (Attempts("ClosureKind") /\ last.how.chk.closure_kind = "None") =>
          (last.result = "Unchanged" /\ LeftNode.obligation.stalled_on = <<>>)
    /\ Invoked("ClosureKind") => last.attempted
    /\ Attempts("ConstEvaluatable") =>
          /\ last.result = (IF last.how.chk.ce = "Ok" THEN "Changed" ELSE "Error")
          /\ last.how.chk.ce # "Ok" =>
               LeftError = "CodeSelectionError(ConstEvalFailure)"

\* C39 witness: in a second select, with no variable known, a closure-kind
\* obligation was attempted and left undecided with nothing to wait for
C39_Witness ==
    /\ calls = 2 /\ resolved = {}
    /\ last.node # 0 /\ last.attempted
    /\ LastPred.kind = "ClosureKind"
    /\ last.how.chk.closure_kind = "None"
    /\ last.result = "Unchanged" /\ LastStalledOn = <<>>

(* ---------------- projection past the recursion limit ------------------- *)

\* the processor last ran project_type (a cache miss) for a projection
\* obligation whose recursion depth is past the limit
DeepProjected ==
    /\ last.node # 0 /\ last.attempted
    /\ LastPred.kind = "Projection"
    /\ ~value_within_limit(nodes[last.node].obligation.obligation.recursion_depth)
    /\ last.how.projected # "cached"
    /\ last.how.ret # "none"

\* C32 as stated: a projection whose recursion depth exceeds the limit is
\* escalated at once as a fatal error: the run is aborted, and the overflow
\* becomes neither a cached result nor a queued obligation or error.
C32_Original ==
    DeepProjected =>
        /\ fatal # <<>> /\ pc = "aborted"
        /\ last.how.entry \notin {"NormalizedTy", "Ambiguous", "Error"}
        /\ last.spawned = 0

\* C32 (amended): project_type answers a recursion depth past the limit
\* with Err(TraitSelectionError(Overflow)) before assembling any candidate;
\* opt_normalize_projection_type records Error for the key and returns a
\* fresh type variable with the obligation `T: Trait` at the same depth.
\* Nothing is fatal: when the types unify the obligation is queued as the
\* node's child and the pass goes on, otherwise the node gets an ordinary
\* projection error.
C32_DepthOverflow ==
    DeepProjected =>
        /\ last.how.projected = "TraitSelectionError"
        /\ last.how.entry = "Error"
        /\ last.how.ret = "OkSome"
        /\ fatal = <<>> /\ pc # "aborted"
        /\ last.how.eq = "Ok" =>
              /\ last.result = "Changed" /\ last.spawned = 1
              /\ \E j \in 1..Len(nodes) :
                    /\ nodes[j].parent = last.node
                    /\ nodes[j].obligation.obligation.predicate.kind = "Trait"
                    /\ nodes[j].obligation.obligation.recursion_depth
                         = nodes[last.node].obligation.obligation.recursion_depth
        /\ last.how.eq = "Err" =>
              /\ last.result = "Error"
              /\ nodes[last.node].state = "Error"

\* C32 witness: a projection obligation past the recursion limit was
\* processed, its `T: Trait` obligation is queued under it and the pass
\* was not aborted
C32_Witness ==
    /\ DeepProjected
    /\ last.how.projected = "TraitSelectionError"
    /\ last.how.entry = "Error"
    /\ last.result = "Changed" /\ last.spawned = 1
    /\ pc = "pass" /\ fatal = <<>>

(* ------------------- claims: confirm_impl_candidate --------------------- *)

\* an impl candidate was confirmed
Confirmed == pstage = "confirmed"

\* the element type the impl's T was matched with and the associated
\* type's own arguments, of the obligation confirmed
ConfirmedElem == impl_source.substs[1]

ConfirmedOwn == Tail(pobligation.substs)

\* C33 as stated: the result type of confirming an impl candidate is
\* always type_of(assoc item) substituted with the obligation's
\* substitutions rebased onto the impl, and the obligations are the nested
\* obligations of the selected impl.
C33_Original ==
    Confirmed =>
        /\ projected.obligations = impl_source.nested
        /\ projected.ty = subst_ty(ImplDefs[impl_source.impl_def_id].ty,
                                   <<ConfirmedElem>> \o ConfirmedOwn)

\* C33 (amended): the obligations returned are always exactly the nested
\* obligations of the selected impl. `<Vec<u32> as MyTrait>::AssocType`
\* with `type AssocType = Box<T>` gives Box<u32>. The type is
\* type_of(assoc item) under the obligation's substitutions rebased onto
\* the impl when the impl defines the item with as many parameters as the
\* substitutions; a definition taken from the trait gets the trait
\* reference's substitutions instead; and the error type results when the
\* definition cannot be looked up, the item has no value, or the parameter
\* counts differ.
C33_ConfirmImpl ==
    Confirmed =>
        LET d == ImplDefs[impl_source.impl_def_id]
            rebased == <<ConfirmedElem>> \o ConfirmedOwn
        IN /\ projected.tag = "Progress"
           /\ projected.obligations = impl_source.nested
           /\ (impl_source.impl_def_id = 1 /\ ConfirmedElem = U32) =>
                 projected.ty = BoxTy(U32)
           /\ projected.ty =
                 (CASE ~d.found \/ ~d.has_value -> TyError
                    [] d.defining_node = "Trait" ->
                         subst_ty(d.ty, <<VecTy(ConfirmedElem)>> \o ConfirmedOwn)
                    [] Len(rebased) # d.count -> TyError
                    [] OTHER -> subst_ty(d.ty, rebased))

\* C33 witness: `<Vec<u32> as MyTrait>::AssocType` was confirmed against
\* `impl<T> MyTrait for Vec<T> { type AssocType = Box<T>; }` with no nested
\* obligation and gave Box<u32>
C33_Witness ==
    /\ Confirmed
    /\ impl_source.impl_def_id = 1
    /\ pobligation.substs = <<VecTy(U32)>>
    /\ impl_source.nested = <<>>
    /\ projected = MkProgress(BoxTy(U32), <<>>)

(* ------------------ claims: the entry a call leaves --------------------- *)

\* the cache entry kind opt_normalize_projection_type writes for what
\* project_type returned
FinalKindFor(tag) ==
    CASE tag \in {"Progress", "NoProgress"} -> "NormalizedTy"
      [] tag = "TooManyCandidates" -> "Ambiguous"
      [] OTHER -> "Error"

\* C34: a call that won try_start holds its key InProgress until it
\* returns and then leaves a final entry for it: NormalizedTy on Progress
\* and NoProgress, Ambiguous on TooManyCandidates, Error on a selection
\* error; and when no call is running no key is InProgress.
C34_FinalEntryWritten ==
    /\ creq.hit = "computed" =>
          LET f == Was.cstack[Len(Was.cstack)]
          IN /\ cstack = SubSeq(Was.cstack, 1, Len(Was.cstack) - 1)
             /\ Was.cache[f.key].kind = "InProgress"
             /\ creq.key = f.key
             /\ creq.out \in {"Progress", "NoProgress", "TooManyCandidates",
                               "TraitSelectionError"}
             /\ cache[f.key].kind = FinalKindFor(creq.out)
    /\ cstack = <<>> => \A k \in Keys : cache[k].kind # "InProgress"

\* C34 witness: a nested call and then the outermost call have returned,
\* the outermost was ambiguous, and entries of two final kinds are in the
\* cache with no key InProgress
C34_Witness ==
    /\ cstack = <<>>
    /\ creq.hit = "computed" /\ creq.out = "TooManyCandidates"
    /\ cache[creq.key].kind = "Ambiguous"
    /\ \E k \in Keys : cache[k].kind \in {"NormalizedTy", "Error"}
    /\ \A k \in Keys : cache[k].kind # "InProgress"

(* ------------- claims: the order of assembly (C35, C37) ----------------- *)

\* the trail entries that push a candidate of source `src`
PushesOf(src) ==
    {i \in 1..Len(trail) : trail[i].op = "push" /\ trail[i].candidate.source = src}

\* C35: in project_type the unreachable!() arm of push_candidate is never
\* taken: every ParamEnv candidate is pushed before anything else touches
\* the candidate set, so it is pushed onto None, onto a Single ParamEnv
\* candidate or onto Ambiguous, never onto a Single candidate of another
\* source.
C35_UnreachableArm ==
    /\ candidates # UnreachableSet
    /\ \A i \in 1..Len(trail) : trail[i].after # UnreachableSet
    /\ \A i \in PushesOf("ParamEnv") :
          /\ \A j \in 1..(i - 1) : j \in PushesOf("ParamEnv")
          /\ trail[i].before.tag = "Single" =>
                trail[i].before.candidate.source = "ParamEnv"
    /\ \A i \in PushesOf("TraitDef") : \A j \in PushesOf("Select") : i < j

\* C35 witness: project_type returned after all three sources pushed: a
\* ParamEnv candidate first, then a TraitDef one, then a Select one
C35_Witness ==
    /\ pstage = "done"
    /\ Len(trail) = 3
    /\ trail[1].op = "push" /\ trail[1].candidate.source = "ParamEnv"
    /\ trail[2].op = "push" /\ trail[2].candidate.source = "TraitDef"
    /\ trail[3].op = "push" /\ trail[3].candidate.source = "Select"
    /\ trail[3].before.tag = "Single"

\* C37: what selection answers in the impls step overrides what was found
\* before: on Ok(None) the final set is Ambiguous and project_type returns
\* TooManyCandidates, on Err(e) the final set is Error(e) and project_type
\* returns TraitSelectionError(e), whatever the set was; and a self type
\* that is an inference variable makes the set Ambiguous in the
\* trait-definition step.
C37_ImplSelectionOverrides ==
    /\ (pstage \in {"match", "done"} /\ impl_source.sel = "None") =>
          /\ candidates = AmbiguousSet
          /\ trail[Len(trail)].op = "mark_ambiguous"
          /\ pstage = "done" => projected = TooManyCandidates
    /\ (pstage \in {"match", "done"} /\ impl_source.sel = "Err") =>
          /\ candidates = ErrorSet("Unimplemented")
          /\ trail[Len(trail)].op = "mark_error"
          /\ pstage = "done" => projected = TraitSelectionError("Unimplemented")
    /\ (pstage = "impls" /\ pobligation.self_ty = "Infer") =>
          /\ candidates = AmbiguousSet
          /\ trail[Len(trail)].op = "mark_ambiguous"

\* C37 witness: the environment gave a candidate, the self type was an
\* inference variable and made the set Ambiguous, selection then failed,
\* and project_type returned the selection error
C37_Witness ==
    /\ pstage = "done"
    /\ pobligation.self_ty = "Infer"
    /\ impl_source.sel = "Err"
    /\ Len(trail) = 3
    /\ trail[1].op = "push" /\ trail[1].after.tag = "Single"
    /\ trail[2].op = "mark_ambiguous" /\ trail[2].before.tag = "Single"
    /\ trail[3].op = "mark_error" /\ trail[3].before = AmbiguousSet
    /\ projected = TraitSelectionError("Unimplemented")

(* --------------------- claims: push_candidate (C36) --------------------- *)

\* C36: every push onto Ambiguous or Error leaves the set as it is and
\* returns false; a push returns true exactly when the set was None, and
\* then the set is Single(the candidate); no push leaves the set None, and
\* once something was pushed or marked the set is not None.
C36_PushAbsorbing ==
    /\ \A i \in 1..Len(trail) :
          trail[i].op = "push" =>
             /\ trail[i].before.tag \in {"Ambiguous", "Error"} =>
                   (trail[i].after = trail[i].before /\ ~trail[i].ret)
             /\ trail[i].ret <=> trail[i].before.tag = "None"
             /\ trail[i].ret => trail[i].after = Single(trail[i].candidate)
             /\ trail[i].after.tag # "None"
    /\ trail # <<>> => candidates.tag # "None"

\* C36 witness: a candidate was pushed onto None and accepted, the set was
\* marked with an error, and a further push was refused and left the error
C36_Witness ==
    /\ Len(trail) = 3
    /\ trail[1].op = "push" /\ trail[1].before = NoneSet /\ trail[1].ret
    /\ trail[2].op = "mark_error"
    /\ trail[3].op = "push" /\ trail[3].before.tag = "Error"
    /\ ~trail[3].ret
    /\ candidates = ErrorSet("Unimplemented")

(* ------------ claims: commit and rollback of a projection (C40) --------- *)

\* the inference state now
InferStateNow == InferState(cache, tyvars, resolved)

\* the last step was a return of poly_project_and_unify_type
PolyCalled == creq.via = "poly" /\ creq.ret # "none"

\* C40: poly_project_and_unify_type returns Err exactly when the normalized
\* type does not unify with the expected type, and then the inference state
\* (projection cache, type variables, bindings) is the one from before the
\* call; when it returns Ok (obligations, ambiguity or InProgress) the
\* state the call made is kept.
C40_CommitOrRollback ==
    PolyCalled =>
        /\ creq.ret \in {"Ok(Ok(Some))", "Ok(Ok(None))", "Ok(Err(InProgress))",
                          "Err(Mismatched)"}
        /\ creq.ret = "Err(Mismatched)" => InferStateNow = creq.before
        /\ creq.ret # "Err(Mismatched)" => InferStateNow = creq.inner
        /\ creq.ret = "Ok(Err(InProgress))" =>
              creq.before.cache[creq.key].kind = "InProgress"

\* C40 witness: a mismatching projection wrote a cache entry, made or bound
\* a variable, and all of it was undone, while an entry committed by an
\* earlier call is still there
C40_Witness ==
    /\ PolyCalled
    /\ creq.ret = "Err(Mismatched)"
    /\ creq.before.cache[creq.key].kind = "Absent"
    /\ creq.inner.cache[creq.key].kind \in {"NormalizedTy", "Error"}
    /\ creq.inner.resolved # creq.before.resolved
    /\ cache[creq.key].kind = "Absent"
    /\ resolved = creq.before.resolved
    /\ \E k \in Keys : cache[k].kind \in {"NormalizedTy", "Ambiguous", "Error"}

====
